--------------------------- MODULE PublishProofs ----------------------------
(***************************************************************************)
(* Proofs about PublishFlow and PublishSession, for every value of their   *)
(* constants: first the client with any server at all, then the client     *)
(* and the server that PublishSession composes it with, last the packet    *)
(* identifiers that the two have in use.                                   *)
(*                                                                         *)
(* With that server, what is still to be said about a publish goes round   *)
(* as one packet or one duty: a PUBLISH or PUBREL on the wire, an answer   *)
(* the server owes, an acknowledgement under way to the client.  Call each *)
(* of them a token.  The proofs count, for every packet identifier, the    *)
(* tokens against the publishes in flight: what is counted is never more   *)
(* than these.                                                             *)
(***************************************************************************)
EXTENDS PublishSession, SequenceLemmas, FiniteSetTheorems
-----------------------------------------------------------------------------
(* THE CLIENT, WITH ANY SERVER *)

-----------------------------------------------------------------------------
(* 16-bit counters *)

\* A std::uint16_t stays one.
LEMMA CounterType ==
    ASSUME NEW n \in U16
    PROVE  /\ Increment(n) \in U16
           /\ Decrement(n) \in U16
           /\ Increment(n) \in {0, n + 1}
BY U16MaxAssumption DEF U16, Increment, Decrement
-----------------------------------------------------------------------------
(* Type correctness *)

LEMMA SendMessageType ==
    ASSUME TypeOK, NEW p \in Packet, SendMessage(p)
    PROVE  wire' \in Seq(Packet)
<1>1. Append(wire, p) \in Seq(Packet)
  BY AppendProperties DEF TypeOK
<1>2. QED BY <1>1 DEF TypeOK, SendMessage

LEMMA StartPublishType ==
    ASSUME TypeOK, NEW m \in Message, NEW q \in U16, StartPublish(m, q)
    PROVE  /\ quota' \in U16
           /\ wire' \in Seq(Packet)
           /\ inflight' \in Seq(InFlight)
           /\ sent' \in Seq(1 .. MaxPublishes)
<1> DEFINE f == [op |-> m.op, qos |-> m.qos, id |-> m.id, state |-> FirstState(m.qos)]
<1>1. quota' \in U16
  BY CounterType DEF StartPublish
<1>2. m.op \in 1 .. MaxPublishes /\ m.qos \in QosLevels /\ m.id \in U16
  BY DEF Message
<1>3. PublishPacket(m) \in Packet
  <2>1. m.op \in 0 .. MaxPublishes
    BY <1>2
  <2>2. QED BY <1>2, <2>1 DEF PublishPacket, Packet
<1>4. wire' \in Seq(Packet)
  BY <1>3, SendMessageType DEF StartPublish
<1>5. f \in InFlight
  BY <1>2 DEF InFlight, FirstState, States
<1>6. Append(inflight, f) \in Seq(InFlight)
  BY <1>5, AppendProperties DEF TypeOK
<1>7. Append(sent, m.op) \in Seq(1 .. MaxPublishes)
  BY <1>2, AppendProperties DEF TypeOK
<1>8. QED BY <1>1, <1>4, <1>6, <1>7 DEF StartPublish

\* What telling a receiver its fate changes.
LEMMA FinishProperties ==
    ASSUME TypeOK, NEW i \in DOMAIN inflight, NEW o \in Outcomes, Finish(i, o)
    PROVE  /\ i \in 1 .. Len(inflight)
           /\ inflight[i] \in InFlight
           /\ inflight' \in Seq(InFlight)
           /\ Len(inflight') = Len(inflight) - 1
           /\ \A j \in 1 .. Len(inflight) - 1 :
                inflight'[j] = IF j < i THEN inflight[j] ELSE inflight[j + 1]
           /\ outcome' \in Seq(Outcomes)
           /\ Len(outcome') = Len(outcome)
           /\ \A n \in 1 .. Len(outcome) :
                outcome'[n] = IF n = inflight[i].op THEN o ELSE outcome[n]
<1>1. i \in 1 .. Len(inflight) /\ inflight \in Seq(InFlight)
  BY LenProperties DEF TypeOK
<1>2. inflight[i] \in InFlight
  BY <1>1, ElementOfSeq
<1>3. /\ inflight' \in Seq(InFlight)
      /\ Len(inflight') = Len(inflight) - 1
      /\ \A j \in 1 .. Len(inflight) - 1 :
           inflight'[j] = IF j < i THEN inflight[j] ELSE inflight[j + 1]
  BY <1>1, RemoveAtProperties DEF Finish
<1>4. /\ outcome \in Seq(Outcomes)
      /\ outcome \in [1 .. Len(outcome) -> Outcomes]
      /\ Len(outcome) \in Nat
  BY LenProperties DEF TypeOK
<1>5. outcome' = [outcome EXCEPT ![inflight[i].op] = o]
  BY DEF Finish
<1>6. /\ outcome' \in Seq(Outcomes)
      /\ Len(outcome') = Len(outcome)
      /\ \A n \in 1 .. Len(outcome) :
           outcome'[n] = IF n = inflight[i].op THEN o ELSE outcome[n]
  <2>1. CASE inflight[i].op \in 1 .. Len(outcome)
    BY <2>1, <1>4, <1>5, ExceptSeq
  <2>2. CASE inflight[i].op \notin 1 .. Len(outcome)
    <3>1. outcome' = outcome
      BY <2>2, <1>4, <1>5
    <3>2. QED BY <3>1, <2>2, <1>4
  <2>3. QED BY <2>1, <2>2
<1>7. QED BY <1>1, <1>2, <1>3, <1>6

LEMMA MaybeSendType ==
    ASSUME TypeOK, MaybeSendQueuedPublish
    PROVE  /\ quota' \in U16
           /\ queue' \in Seq(Message)
           /\ wire' \in Seq(Packet)
           /\ inflight' \in Seq(InFlight)
           /\ sent' \in Seq(1 .. MaxPublishes)
<1>1. CASE UNCHANGED <<quota, queue, inflight, wire, sent>>
  BY <1>1 DEF TypeOK
<1>2. CASE quota' = Increment(quota) /\ UNCHANGED <<queue, inflight, wire, sent>>
  BY <1>2, CounterType DEF TypeOK
<1>3. CASE /\ queue # <<>>
           /\ StartPublish(Head(queue), Increment(quota))
           /\ queue' = Tail(queue)
  <2>1. Head(queue) \in Message /\ Tail(queue) \in Seq(Message)
    BY <1>3, HeadTailProperties DEF TypeOK
  <2>2. Increment(quota) \in U16
    BY CounterType DEF TypeOK
  <2>3. QED BY <1>3, <2>1, <2>2, StartPublishType
<1>4. QED BY <1>1, <1>2, <1>3 DEF MaybeSendQueuedPublish

LEMMA TakeIdentifierType ==
    ASSUME TypeOK, TakeIdentifier
    PROVE  nextId' \in 1 .. U16Max
BY U16MaxAssumption DEF TypeOK, TakeIdentifier, Increment

LEMMA InitType == Init => TypeOK
<1> SUFFICES ASSUME Init PROVE TypeOK
  OBVIOUS
<1>1. UnsetQuota \in U16 /\ 1 \in 1 .. U16Max
  BY QuotaAssumption, U16MaxAssumption DEF U16
<1>2. /\ queue \in Seq(Message) /\ inflight \in Seq(InFlight) /\ wire \in Seq(Packet)
      /\ sent \in Seq(1 .. MaxPublishes) /\ outcome \in Seq(Outcomes)
  BY EmptySeq DEF Init
<1>3. connected \in BOOLEAN /\ open \in BOOLEAN /\ handler \in Handlers
  BY DEF Init, Handlers
<1>4. QED BY <1>1, <1>2, <1>3 DEF Init, TypeOK

LEMMA PublishType ==
    ASSUME TypeOK, NEW qos \in QosLevels, Publish(qos)
    PROVE  TypeOK'
<1> DEFINE m == [op |-> Len(outcome) + 1, qos |-> qos, id |-> nextId]
<1>1. nextId' \in 1 .. U16Max
  BY TakeIdentifierType DEF Publish
<1>2. Len(outcome) \in Nat /\ Len(outcome) < MaxPublishes
  BY LenProperties DEF TypeOK, Publish
<1>3. m \in Message
  <2>1. Len(outcome) + 1 \in 1 .. MaxPublishes
    BY <1>2, BoundsAssumption
  <2>2. nextId \in U16
    BY U16MaxAssumption DEF TypeOK, U16
  <2>3. QED BY <2>1, <2>2 DEF Message
<1>4. outcome' \in Seq(Outcomes) /\ early' \in Nat
  <2>1. "pending" \in Outcomes
    BY DEF Outcomes
  <2>2. Append(outcome, "pending") \in Seq(Outcomes)
    BY <2>1, AppendProperties DEF TypeOK
  <2>3. early \in Nat /\ (early' = early \/ early' = early + 1)
    BY DEF Publish, TypeOK
  <2>4. early' \in Nat
    BY <2>3
  <2>5. outcome' = Append(outcome, "pending")
    BY DEF Publish
  <2>6. QED BY <2>2, <2>4, <2>5
<1>5. /\ quota' \in U16
      /\ queue' \in Seq(Message)
      /\ wire' \in Seq(Packet)
      /\ inflight' \in Seq(InFlight)
      /\ sent' \in Seq(1 .. MaxPublishes)
  <2>1. CASE StartPublish(m, quota) /\ UNCHANGED queue
    <3>1. quota \in U16
      BY DEF TypeOK
    <3>2. QED BY <1>3, <2>1, <3>1, StartPublishType DEF TypeOK
  <2>2. CASE queue' = Append(queue, m) /\ UNCHANGED <<quota, inflight, wire, sent>>
    <3>1. Append(queue, m) \in Seq(Message)
      BY <1>3, AppendProperties DEF TypeOK
    <3>2. QED BY <2>2, <3>1 DEF TypeOK
  <2>3. QED BY <2>1, <2>2 DEF Publish
<1>6. QED BY <1>1, <1>4, <1>5 DEF Publish, TypeOK

LEMMA ConnackType ==
    ASSUME TypeOK, NEW rm \in ReceiveMaxima, HandleConnack(rm)
    PROVE  TypeOK'
<1>1. rm \in U16
  BY QuotaAssumption DEF U16
<1>2. QED BY <1>1 DEF TypeOK, HandleConnack, history

LEMMA HandlePubackType ==
    ASSUME TypeOK, NEW id \in U16, HandlePuback(id)
    PROVE  TypeOK'
<1>1. PICK i \in DOMAIN inflight :
        \/ Finish(i, "completed") /\ handler' = "puback"
        \/ Finish(i, "done") /\ handler' = "puback_mismatch"
  BY DEF HandlePuback
<1>2. "completed" \in Outcomes /\ "done" \in Outcomes
  BY DEF Outcomes
<1>3. inflight' \in Seq(InFlight) /\ outcome' \in Seq(Outcomes)
  BY <1>1, <1>2, FinishProperties
<1>4. handler' \in Handlers
  BY <1>1 DEF Handlers
<1>5. QED BY <1>3, <1>4 DEF TypeOK, HandlePuback

LEMMA PubackReturnType ==
    ASSUME TypeOK, PubackReturn
    PROVE  TypeOK'
<1>1. /\ quota' \in U16
      /\ queue' \in Seq(Message)
      /\ wire' \in Seq(Packet)
      /\ inflight' \in Seq(InFlight)
      /\ sent' \in Seq(1 .. MaxPublishes)
  BY MaybeSendType DEF PubackReturn
<1>2. open' \in BOOLEAN /\ handler' \in Handlers
  BY DEF PubackReturn, Handlers, TypeOK
<1>3. QED BY <1>1, <1>2 DEF TypeOK, PubackReturn

LEMMA PubrecReturnType ==
    ASSUME TypeOK, PubrecReturn
    PROVE  TypeOK'
BY DEF TypeOK, PubrecReturn, Handlers, history

LEMMA HandleUnknownPubackType ==
    ASSUME TypeOK, NEW id \in U16, HandleUnknownPuback(id)
    PROVE  TypeOK'
<1>1. /\ quota' \in U16
      /\ queue' \in Seq(Message)
      /\ wire' \in Seq(Packet)
      /\ inflight' \in Seq(InFlight)
      /\ sent' \in Seq(1 .. MaxPublishes)
  BY MaybeSendType DEF HandleUnknownPuback
<1>2. QED BY <1>1 DEF TypeOK, HandleUnknownPuback

\* PUBREC refused, PUBREC mismatch and PUBCOMP erase an entry and return no quota.
LEMMA FinishingType ==
    ASSUME TypeOK, NEW id \in U16,
           HandlePubrecError(id) \/ HandlePubrecMismatch(id) \/ HandlePubcomp(id)
    PROVE  TypeOK'
<1>1. \E i \in DOMAIN inflight, o \in Outcomes : Finish(i, o)
  BY DEF HandlePubrecError, HandlePubrecMismatch, HandlePubcomp, Outcomes
<1>2. inflight' \in Seq(InFlight) /\ outcome' \in Seq(Outcomes)
  BY <1>1, FinishProperties
<1>3. leaked' \in Nat
  BY DEF HandlePubrecError, HandlePubrecMismatch, HandlePubcomp, TypeOK
<1>4. handler' \in Handlers
  BY DEF HandlePubrecError, HandlePubrecMismatch, HandlePubcomp, Handlers, TypeOK
<1>5. QED
  BY <1>2, <1>3, <1>4 DEF TypeOK, HandlePubrecError, HandlePubrecMismatch, HandlePubcomp

\* A PUBREC with success moves one entry to waiting_pubcomp.
LEMMA HandlePubrecProperties ==
    ASSUME TypeOK, NEW id \in U16, HandlePubrec(id)
    PROVE  /\ inflight' \in Seq(InFlight)
           /\ Len(inflight') = Len(inflight)
           /\ \A j \in 1 .. Len(inflight) : inflight'[j].op = inflight[j].op
           /\ wire' \in Seq(Packet)
<1>1. PICK i \in DOMAIN inflight :
        /\ inflight' = [inflight EXCEPT ![i].state = "waiting_pubcomp"]
        /\ SendMessage(PubrelPacket(id, TRUE))
  BY DEF HandlePubrec
<1>2. /\ inflight \in Seq(InFlight)
      /\ i \in 1 .. Len(inflight)
      /\ inflight[i] \in InFlight
  BY LenProperties, ElementOfSeq DEF TypeOK
<1> DEFINE f == [inflight[i] EXCEPT !.state = "waiting_pubcomp"]
<1>3. f \in InFlight /\ f.op = inflight[i].op
  BY <1>2 DEF InFlight, States
<1>4. inflight' = [inflight EXCEPT ![i] = f]
  BY <1>1
<1> HIDE DEF f
<1>5. /\ inflight' \in Seq(InFlight)
      /\ Len(inflight') = Len(inflight)
      /\ \A j \in 1 .. Len(inflight) : inflight'[j] = IF j = i THEN f ELSE inflight[j]
  BY <1>2, <1>3, <1>4, ExceptSeq
<1>6. PubrelPacket(id, TRUE) \in Packet
  BY DEF PubrelPacket, Packet
<1>7. wire' \in Seq(Packet)
  BY <1>1, <1>6, SendMessageType
<1>8. QED BY <1>3, <1>5, <1>7

LEMMA HandlePubrecType ==
    ASSUME TypeOK, NEW id \in U16, HandlePubrec(id) \/ HandleUnknownPubrec(id)
    PROVE  TypeOK'
<1>1. CASE HandlePubrec(id)
  BY <1>1, HandlePubrecProperties DEF TypeOK, HandlePubrec, history
<1>2. CASE HandleUnknownPubrec(id)
  <2>1. PubrelPacket(id, FALSE) \in Packet
    BY DEF PubrelPacket, Packet
  <2>2. wire' \in Seq(Packet)
    BY <1>2, <2>1, SendMessageType DEF HandleUnknownPubrec
  <2>3. QED BY <1>2, <2>2 DEF TypeOK, HandleUnknownPubrec, history
<1>3. QED BY <1>1, <1>2

LEMMA OtherType ==
    ASSUME TypeOK, PublishQos0 \/ TakeRequestIdentifier \/ Transmit \/ Close \/ UNCHANGED vars
    PROVE  TypeOK'
<1>1. CASE PublishQos0
  <2>1. PublishPacket([op |-> 0, qos |-> 0, id |-> 0]) \in Packet
    BY BoundsAssumption, U16MaxAssumption DEF PublishPacket, Packet, U16
  <2>2. wire' \in Seq(Packet)
    BY <1>1, <2>1, SendMessageType DEF PublishQos0
  <2>3. QED BY <1>1, <2>2 DEF TypeOK, PublishQos0
<1>2. CASE TakeRequestIdentifier
  BY <1>2, TakeIdentifierType DEF TypeOK, TakeRequestIdentifier
<1>3. CASE Transmit
  <2>1. Tail(wire) \in Seq(Packet)
    BY <1>3, HeadTailProperties DEF TypeOK, Transmit
  <2>2. QED BY <1>3, <2>1 DEF TypeOK, Transmit, history
<1>4. CASE Close
  BY <1>4 DEF TypeOK, Close, history
<1>5. CASE UNCHANGED vars
  BY <1>5 DEF TypeOK, vars, history
<1>6. QED BY <1>1, <1>2, <1>3, <1>4, <1>5

LEMMA TypeStep == TypeOK /\ [Next]_vars => TypeOK'
<1> SUFFICES ASSUME TypeOK, [Next]_vars PROVE TypeOK'
  OBVIOUS
<1>1. ASSUME NEW qos \in QosLevels, Publish(qos) PROVE TypeOK'
  BY <1>1, PublishType
<1>2. ASSUME NEW rm \in ReceiveMaxima, HandleConnack(rm) PROVE TypeOK'
  BY <1>2, ConnackType
<1>3. ASSUME NEW id \in U16, Handle(id) PROVE TypeOK'
  BY <1>3, HandlePubackType, HandleUnknownPubackType, FinishingType, HandlePubrecType
     DEF Handle
<1>4. CASE Return
  BY <1>4, PubackReturnType, PubrecReturnType DEF Return
<1>5. CASE PublishQos0 \/ TakeRequestIdentifier \/ Transmit \/ Close \/ UNCHANGED vars
  BY <1>5, OtherType
<1>6. QED BY <1>1, <1>2, <1>3, <1>4, <1>5 DEF Next, User

\* Every variable keeps its type: in particular the quotas stay 16-bit
\* numbers and no packet identifier handed out is 0.
THEOREM TypeCorrect == Spec => []TypeOK
BY InitType, TypeStep, PTL DEF Spec
-----------------------------------------------------------------------------
(* The inductive invariant *)

\* What was handed over and what waits are numbered without a gap.
OrderInv ==
    /\ Len(sent) + Len(queue) = Len(outcome)
    /\ \A k \in 1 .. Len(sent) : sent[k] = k
    /\ \A k \in 1 .. Len(queue) : queue[k].op = Len(sent) + k

\* What is in flight was handed over, is there once, and has no fate yet;
\* what waits has no fate either.
HeldInv ==
    /\ \A i \in 1 .. Len(inflight) :
        inflight[i].op \in 1 .. Len(sent) /\ outcome[inflight[i].op] = "pending"
    /\ \A i, j \in 1 .. Len(inflight) : i # j => inflight[i].op # inflight[j].op
    /\ \A n \in Len(sent) + 1 .. Len(outcome) : outcome[n] = "pending"

\* Before the CONNACK every publish was sent and paid for.
EarlyInv ==
    ~connected =>
        /\ queue = <<>> /\ handler = "none"
        /\ maxQuota = UnsetQuota
        /\ Len(sent) = early /\ Len(inflight) = early
        /\ early <= MaxEarly /\ quota = UnsetQuota - early
        /\ leaked = 0 /\ spurious = 0

QuotaInv ==
    /\ QuotaWithinGrant
    /\ QueueOnlyWithoutQuota
    /\ WindowRespected
    /\ QuotaAccounted

IInv == TypeOK /\ OrderInv /\ HeldInv /\ EarlyInv /\ QuotaInv

\* The lengths of the sequences, as numbers.
LEMMA Lengths ==
    ASSUME TypeOK
    PROVE  /\ Len(queue) \in Nat /\ Len(inflight) \in Nat
           /\ Len(sent) \in Nat /\ Len(outcome) \in Nat
           /\ (queue = <<>> <=> Len(queue) = 0)
           /\ DOMAIN queue = 1 .. Len(queue) /\ DOMAIN inflight = 1 .. Len(inflight)
           /\ DOMAIN outcome = 1 .. Len(outcome)
           /\ quota \in Nat /\ maxQuota \in Nat /\ quota <= U16Max /\ maxQuota <= U16Max
           /\ early \in Nat /\ leaked \in Nat /\ spurious \in Nat
BY LenProperties, EmptySeq, U16MaxAssumption DEF TypeOK, U16

\* The publish m has been handed over, and q - 1 units of quota are left.
HandedOver(m, q) ==
    /\ quota' = q - 1
    /\ Len(inflight') = Len(inflight) + 1
    /\ \A i \in 1 .. Len(inflight) : inflight'[i] = inflight[i]
    /\ inflight'[Len(inflight) + 1].op = m.op
    /\ Len(sent') = Len(sent) + 1
    /\ sent' = Append(sent, m.op)
    /\ \A k \in 1 .. Len(sent) : sent'[k] = sent[k]
    /\ sent'[Len(sent) + 1] = m.op

LEMMA StartPublishEffect ==
    ASSUME TypeOK, NEW m \in Message, NEW q \in U16, q > 0, StartPublish(m, q)
    PROVE  HandedOver(m, q)
<1> DEFINE f == [op |-> m.op, qos |-> m.qos, id |-> m.id, state |-> FirstState(m.qos)]
<1>1. quota' = q - 1
  BY DEF StartPublish, Decrement, U16
<1>2. m.op \in 1 .. MaxPublishes /\ m.qos \in QosLevels /\ m.id \in U16
  BY DEF Message
<1>3. f \in InFlight /\ f.op = m.op
  BY <1>2 DEF InFlight, FirstState, States
<1>4. inflight' = Append(inflight, f) /\ sent' = Append(sent, m.op)
  BY DEF StartPublish
<1> HIDE DEF f
<1>5. /\ Len(inflight') = Len(inflight) + 1
      /\ \A i \in 1 .. Len(inflight) : inflight'[i] = inflight[i]
      /\ inflight'[Len(inflight) + 1] = f
  BY <1>3, <1>4, AppendProperties DEF TypeOK
<1>6. /\ Len(sent') = Len(sent) + 1
      /\ \A k \in 1 .. Len(sent) : sent'[k] = sent[k]
      /\ sent'[Len(sent) + 1] = m.op
  BY <1>2, <1>4, AppendProperties DEF TypeOK
<1>7. QED BY <1>1, <1>3, <1>4, <1>5, <1>6 DEF HandedOver

\* The three ways in which maybe_send_queued_publish can go.
LEMMA MaybeSendEffect ==
    ASSUME TypeOK, MaybeSendQueuedPublish
    PROVE  \/ /\ quota >= maxQuota
              /\ UNCHANGED <<quota, queue, inflight, sent>>
           \/ /\ quota < maxQuota /\ queue = <<>>
              /\ quota' = quota + 1
              /\ UNCHANGED <<queue, inflight, sent>>
           \/ /\ quota < maxQuota /\ queue # <<>>
              /\ HandedOver(queue[1], quota + 1)
              /\ Len(queue') = Len(queue) - 1
              /\ \A k \in 1 .. Len(queue) - 1 : queue'[k] = queue[k + 1]
<1>1. quota < maxQuota => Increment(quota) = quota + 1 /\ quota + 1 \in U16 /\ quota + 1 > 0
  BY Lengths, U16MaxAssumption DEF Increment, U16
<1>2. CASE /\ quota < maxQuota /\ queue # <<>>
           /\ StartPublish(Head(queue), Increment(quota))
           /\ queue' = Tail(queue)
  <2>1. /\ Head(queue) \in Message
        /\ Len(queue') = Len(queue) - 1
        /\ \A k \in 1 .. Len(queue') : queue'[k] = queue[k + 1]
    BY <1>2, HeadTailProperties DEF TypeOK
  <2>2. Head(queue) = queue[1]
    BY <1>2
  <2>3. HandedOver(queue[1], quota + 1)
    BY <1>1, <1>2, <2>1, <2>2, StartPublishEffect
  <2>4. QED BY <1>2, <2>1, <2>3
<1>3. QED BY <1>1, <1>2 DEF MaybeSendQueuedPublish
-----------------------------------------------------------------------------
(* Preservation, one lemma per kind of step *)

Invs == OrderInv /\ HeldInv /\ EarlyInv /\ QuotaInv

\* Steps that move no publish and no quota.
LEMMA FrameInv ==
    ASSUME IInv,
           UNCHANGED <<connected, maxQuota, quota, queue, inflight, handler,
                       sent, outcome, early, leaked, spurious>>
    PROVE  Invs'
BY DEF IInv, Invs, OrderInv, HeldInv, EarlyInv, QuotaInv, QuotaWithinGrant,
       QueueOnlyWithoutQuota, WindowRespected, QuotaAccounted, Returning

\* HandlePubrec moves a publish to its second phase, where it still is in flight.
LEMMA HandlePubrecInv ==
    ASSUME IInv, NEW id \in U16, HandlePubrec(id)
    PROVE  Invs'
<1>1. /\ Len(inflight') = Len(inflight)
      /\ \A j \in 1 .. Len(inflight) : inflight'[j].op = inflight[j].op
  BY HandlePubrecProperties DEF IInv
<1>2. UNCHANGED <<connected, maxQuota, quota, queue, handler, sent, outcome, early, leaked, spurious>>
  BY DEF HandlePubrec, history
<1>3. OrderInv'
  BY <1>2 DEF IInv, OrderInv
<1>4. HeldInv'
  BY <1>1, <1>2 DEF IInv, HeldInv
<1>5. EarlyInv'
  BY <1>1, <1>2 DEF IInv, EarlyInv
<1>6. QuotaInv'
  BY <1>1, <1>2 DEF IInv, QuotaInv, QuotaWithinGrant,
       QueueOnlyWithoutQuota, WindowRespected, QuotaAccounted, Returning
<1>7. QED BY <1>3, <1>4, <1>5, <1>6 DEF Invs

\* The CONNACK resets both quotas: nothing is queued then.
LEMMA HandleConnackInv ==
    ASSUME IInv, NEW rm \in ReceiveMaxima, HandleConnack(rm)
    PROVE  Invs'
<1>1. /\ ~connected /\ connected' /\ maxQuota' = rm /\ quota' = rm
      /\ UNCHANGED <<queue, inflight, handler, sent, outcome, early, leaked, spurious>>
  BY DEF HandleConnack, history
<1>2. rm \in Nat
  BY QuotaAssumption, U16MaxAssumption
<1>3. OrderInv' /\ HeldInv' /\ EarlyInv'
  BY <1>1 DEF IInv, OrderInv, HeldInv, EarlyInv
<1>4. QuotaInv'
  BY <1>1, <1>2, Lengths DEF IInv, EarlyInv, QuotaInv, QuotaWithinGrant,
       QueueOnlyWithoutQuota, WindowRespected, QuotaAccounted, Returning
<1>5. QED BY <1>3, <1>4 DEF Invs

\* The next publish joins those in flight.
LEMMA HandedOverHeld ==
    ASSUME TypeOK, OrderInv, HeldInv, NEW m, NEW q, HandedOver(m, q),
           m.op = Len(sent) + 1,
           Len(outcome') \in Nat, Len(sent) < Len(outcome'), Len(outcome) <= Len(outcome'),
           \A n \in 1 .. Len(outcome) : outcome'[n] = outcome[n],
           \A n \in Len(outcome) + 1 .. Len(outcome') : outcome'[n] = "pending"
    PROVE  HeldInv'
<1>1. /\ Len(inflight) \in Nat /\ Len(sent) \in Nat /\ Len(queue) \in Nat /\ Len(outcome) \in Nat
      /\ Len(sent) <= Len(outcome)
  BY Lengths DEF OrderInv
<1>2. /\ Len(inflight') = Len(inflight) + 1 /\ Len(sent') = Len(sent) + 1
      /\ \A i \in 1 .. Len(inflight) : inflight'[i] = inflight[i]
      /\ inflight'[Len(inflight) + 1].op = Len(sent) + 1
  BY DEF HandedOver
<1>3. \A n \in Len(sent) + 1 .. Len(outcome') : outcome'[n] = "pending"
  <2> SUFFICES ASSUME NEW n \in Len(sent) + 1 .. Len(outcome')
               PROVE  outcome'[n] = "pending"
    OBVIOUS
  <2>1. CASE n <= Len(outcome)
    <3>1. n \in 1 .. Len(outcome) /\ n \in Len(sent) + 1 .. Len(outcome)
      BY <1>1, <2>1
    <3>2. QED BY <3>1 DEF HeldInv
  <2>2. CASE ~(n <= Len(outcome))
    <3>1. n \in Len(outcome) + 1 .. Len(outcome')
      BY <1>1, <2>2
    <3>2. QED BY <3>1
  <2>3. QED BY <2>1, <2>2
<1>4. \A i \in 1 .. Len(inflight) :
        /\ inflight'[i].op \in 1 .. Len(sent)
        /\ outcome'[inflight'[i].op] = "pending"
  <2> SUFFICES ASSUME NEW i \in 1 .. Len(inflight)
               PROVE  /\ inflight'[i].op \in 1 .. Len(sent)
                      /\ outcome'[inflight'[i].op] = "pending"
    OBVIOUS
  <2>1. inflight[i].op \in 1 .. Len(sent) /\ outcome[inflight[i].op] = "pending"
    BY DEF HeldInv
  <2>2. inflight[i].op \in 1 .. Len(outcome)
    BY <1>1, <2>1
  <2>3. QED BY <1>2, <2>1, <2>2
<1>5. ASSUME NEW i \in 1 .. Len(inflight')
      PROVE  inflight'[i].op \in 1 .. Len(sent') /\ outcome'[inflight'[i].op] = "pending"
  <2>1. CASE i \in 1 .. Len(inflight)
    BY <1>1, <1>2, <1>4, <2>1
  <2>2. CASE i = Len(inflight) + 1
    <3>1. Len(sent) + 1 \in Len(sent) + 1 .. Len(outcome')
      BY <1>1
    <3>2. QED BY <1>1, <1>2, <1>3, <2>2, <3>1
  <2>3. QED BY <1>1, <1>2, <2>1, <2>2
<1>6. ASSUME NEW i \in 1 .. Len(inflight'), NEW j \in 1 .. Len(inflight'), i # j
      PROVE  inflight'[i].op # inflight'[j].op
  <2>1. CASE i \in 1 .. Len(inflight) /\ j \in 1 .. Len(inflight)
    BY <1>2, <1>6, <2>1 DEF HeldInv
  <2>2. CASE i = Len(inflight) + 1 /\ j \in 1 .. Len(inflight)
    BY <1>1, <1>2, <1>4, <2>2
  <2>3. CASE j = Len(inflight) + 1 /\ i \in 1 .. Len(inflight)
    BY <1>1, <1>2, <1>4, <2>3
  <2>4. QED BY <1>1, <1>2, <1>6, <2>1, <2>2, <2>3
<1>7. \A n \in Len(sent') + 1 .. Len(outcome') : outcome'[n] = "pending"
  BY <1>1, <1>2, <1>3
<1>8. QED BY <1>5, <1>6, <1>7 DEF HeldInv

\* A publisher is started: its publish goes out or queues up behind the others.
LEMMA PublishInv ==
    ASSUME IInv, NEW qos \in QosLevels, Publish(qos)
    PROVE  Invs'
<1> DEFINE m == [op |-> Len(outcome) + 1, qos |-> qos, id |-> nextId]
<1>1. TypeOK /\ OrderInv /\ HeldInv /\ EarlyInv /\ QuotaInv
  BY DEF IInv
<1>2. UNCHANGED <<connected, maxQuota, handler, leaked, spurious>>
  BY DEF Publish
<1>3. /\ Len(outcome') = Len(outcome) + 1
      /\ \A n \in 1 .. Len(outcome) : outcome'[n] = outcome[n]
      /\ outcome'[Len(outcome) + 1] = "pending"
  <2>1. "pending" \in Outcomes
    BY DEF Outcomes
  <2>2. outcome' = Append(outcome, "pending")
    BY DEF Publish
  <2>3. QED BY <1>1, <2>1, <2>2, AppendProperties DEF TypeOK
<1>4. /\ Len(queue) \in Nat /\ Len(inflight) \in Nat
      /\ Len(sent) \in Nat /\ Len(outcome) \in Nat
      /\ (queue = <<>> <=> Len(queue) = 0)
      /\ quota \in Nat /\ maxQuota \in Nat
      /\ early \in Nat /\ leaked \in Nat /\ spurious \in Nat
  BY <1>1, Lengths
<1>5. m \in Message /\ m.op = Len(outcome) + 1
  <2>1. Len(outcome) + 1 \in 1 .. MaxPublishes
    BY <1>4, BoundsAssumption DEF Publish
  <2>2. nextId \in U16
    BY <1>1, U16MaxAssumption DEF TypeOK, U16
  <2>3. QED BY <2>1, <2>2 DEF Message
<1>6. CASE StartPublish(m, quota) /\ UNCHANGED queue /\ quota > 0
  <2>1. HandedOver(m, quota)
    BY <1>1, <1>5, <1>6, StartPublishEffect DEF TypeOK
  <2>2. queue = <<>> /\ Len(sent) = Len(outcome)
    BY <1>1, <1>4, <1>6 DEF QuotaInv, QueueOnlyWithoutQuota, OrderInv
  <2>3. /\ quota' = quota - 1
        /\ Len(inflight') = Len(inflight) + 1
        /\ \A i \in 1 .. Len(inflight) : inflight'[i] = inflight[i]
        /\ inflight'[Len(inflight) + 1].op = Len(outcome) + 1
        /\ Len(sent') = Len(sent) + 1
        /\ \A k \in 1 .. Len(sent) : sent'[k] = sent[k]
        /\ sent'[Len(sent) + 1] = Len(outcome) + 1
    BY <1>5, <2>1 DEF HandedOver
  <2>4. OrderInv'
    BY <1>1, <1>3, <1>4, <1>6, <2>2, <2>3 DEF OrderInv
  <2>5. HeldInv'
    <3>1. \A n \in Len(outcome) + 1 .. Len(outcome') : outcome'[n] = "pending"
      BY <1>3, <1>4
    <3>2. m.op = Len(sent) + 1
      BY <1>5, <2>2
    <3> HIDE DEF m
    <3>3. QED BY <1>1, <1>3, <1>4, <2>1, <2>2, <3>1, <3>2, HandedOverHeld
  <2>6. EarlyInv'
    <3>1. ASSUME ~connected
          PROVE  /\ Len(sent') = early' /\ Len(inflight') = early'
                 /\ early' <= MaxEarly /\ quota' = UnsetQuota - early'
      <4>1. early < MaxEarly /\ early' = early + 1 /\ MaxEarly \in Nat /\ UnsetQuota \in Nat
        BY <3>1, EarlyAssumption, QuotaAssumption DEF Publish
      <4>2. Len(sent) = early /\ Len(inflight) = early /\ quota = UnsetQuota - early
        BY <1>1, <3>1 DEF EarlyInv
      <4>3. QED BY ONLY <1>4, <2>3, <4>1, <4>2
    <3>2. UNCHANGED <<queue, connected, handler, maxQuota, leaked, spurious>>
      BY <1>2, <1>6
    <3>3. QED BY <1>1, <3>1, <3>2 DEF EarlyInv
  <2>7. early' = IF connected THEN early ELSE early + 1
    BY DEF Publish
  <2>8. QuotaInv'
    <3>1. Returning' = Returning /\ Returning \in Nat
      BY <1>2 DEF Returning
    <3>2. quota' + Len(inflight') = quota + Len(inflight) /\ quota' <= quota
      BY <1>4, <2>3
    <3>3. early' \in Nat /\ early <= early' /\ (connected => early' = early)
      BY <1>4, <2>7
    <3>4. QuotaWithinGrant' /\ QueueOnlyWithoutQuota'
      BY <1>1, <1>2, <1>4, <1>6, <2>2, <2>3
         DEF QuotaInv, QuotaWithinGrant, QueueOnlyWithoutQuota
    <3>5. ASSUME connected
          PROVE  quota' + Len(inflight') + Returning'
                   <= maxQuota' + early' + spurious'
      <4>1. quota + Len(inflight) + Returning <= maxQuota + early + spurious
        BY <1>1, <3>5 DEF QuotaInv, WindowRespected
      <4>2. Len(inflight') \in Nat /\ quota' \in Int
        BY <1>4, <2>3
      <4> QED BY <1>2, <1>4, <3>1, <3>2, <3>3, <3>5, <4>1, <4>2
    <3>6. ASSUME connected, early' = 0, spurious = 0
          PROVE  quota' + Len(inflight') + Returning' + leaked' = maxQuota'
      <4>1. quota + Len(inflight) + Returning + leaked = maxQuota
        BY <1>1, <3>3, <3>6 DEF QuotaInv, QuotaAccounted
      <4> QED BY <1>2, <1>4, <3>1, <3>2, <4>1
    <3>7. WindowRespected' /\ QuotaAccounted'
      BY <1>2, <3>5, <3>6 DEF WindowRespected, QuotaAccounted
    <3>8. QED BY <3>4, <3>7 DEF QuotaInv
  <2>9. QED BY <2>4, <2>5, <2>6, <2>8 DEF Invs
<1>7. CASE queue' = Append(queue, m) /\ UNCHANGED <<quota, inflight, sent>> /\ quota = 0
  <2>1. /\ Len(queue') = Len(queue) + 1
        /\ \A k \in 1 .. Len(queue) : queue'[k] = queue[k]
        /\ queue'[Len(queue) + 1] = m
    BY <1>1, <1>5, <1>7, AppendProperties DEF TypeOK
  <2>2. connected
    BY <1>1, <1>4, <1>7, EarlyAssumption, QuotaAssumption DEF EarlyInv
  <2>3. early' = early
    BY <2>2 DEF Publish
  <2>4. OrderInv'
    <3>0. sent' = sent /\ Len(queue') = Len(queue) + 1 /\ Len(outcome') = Len(outcome) + 1
      BY <1>3, <1>7, <2>1
    <3>1. Len(sent') + Len(queue') = Len(outcome') /\ Len(sent') = Len(sent)
      <4>1. Len(sent) + Len(queue) = Len(outcome)
        BY <1>1 DEF OrderInv
      <4>2. QED BY <1>4, <3>0, <4>1
    <3>2. \A k \in 1 .. Len(sent') : sent'[k] = k
      BY <1>1, <1>7 DEF OrderInv
    <3>3. queue'[Len(queue) + 1].op = Len(sent) + (Len(queue) + 1)
      BY <1>1, <1>4, <1>5, <2>1 DEF OrderInv
    <3>4. \A k \in 1 .. Len(queue) : queue'[k].op = Len(sent) + k
      BY <1>1, <2>1 DEF OrderInv
    <3>5. ASSUME NEW k \in 1 .. Len(queue')
          PROVE  queue'[k].op = Len(sent') + k
      <4>1. CASE k = Len(queue) + 1
        BY <3>1, <3>3, <4>1
      <4>2. CASE k # Len(queue) + 1
        <5>1. k \in 1 .. Len(queue)
          BY <1>4, <3>0, <4>2
        <5>2. QED BY <3>1, <3>4, <5>1
      <4>3. QED BY <4>1, <4>2
    <3>6. QED BY <3>1, <3>2, <3>5 DEF OrderInv
  <2>5. HeldInv'
    <3>1. Len(sent) <= Len(outcome)
      BY <1>1, <1>4 DEF OrderInv
    <3>2. ASSUME NEW i \in 1 .. Len(inflight)
          PROVE  inflight[i].op \in 1 .. Len(sent) /\ outcome'[inflight[i].op] = "pending"
      <4>1. inflight[i].op \in 1 .. Len(sent) /\ outcome[inflight[i].op] = "pending"
        BY <1>1 DEF HeldInv
      <4>2. inflight[i].op \in 1 .. Len(outcome)
        BY <1>4, <3>1, <4>1
      <4>3. outcome'[inflight[i].op] = outcome[inflight[i].op]
        BY <1>3, <4>2
      <4>4. QED BY <4>1, <4>3
    <3>3. ASSUME NEW n \in Len(sent) + 1 .. Len(outcome) + 1
          PROVE  outcome'[n] = "pending"
      <4>1. CASE n = Len(outcome) + 1
        BY <1>3, <4>1
      <4>2. CASE n # Len(outcome) + 1
        <5>1. n \in Len(sent) + 1 .. Len(outcome) /\ n \in 1 .. Len(outcome)
          BY <1>4, <4>2
        <5>2. QED BY <1>1, <1>3, <5>1 DEF HeldInv
      <4>3. QED BY <4>1, <4>2
    <3>4. \A i, j \in 1 .. Len(inflight) : i # j => inflight[i].op # inflight[j].op
      BY <1>1 DEF HeldInv
    <3>5. Len(outcome') = Len(outcome) + 1
      BY <1>3
    <3>6. QED BY <1>7, <3>2, <3>3, <3>4, <3>5 DEF HeldInv
  <2>6. EarlyInv'
    BY <1>2, <2>2 DEF EarlyInv
  <2>7. QuotaInv'
    BY <1>1, <1>2, <1>7, <2>3
       DEF QuotaInv, QuotaWithinGrant, QueueOnlyWithoutQuota, WindowRespected,
           QuotaAccounted, Returning
  <2>8. QED BY <2>4, <2>5, <2>6, <2>7 DEF Invs
<1>8. QED BY <1>6, <1>7 DEF Publish

\* A receiver is told its fate: order and the fates of the others stand.
LEMMA FinishInv ==
    ASSUME IInv, NEW i \in DOMAIN inflight, NEW o \in Outcomes, Finish(i, o),
           UNCHANGED <<queue, sent>>
    PROVE  OrderInv' /\ HeldInv'
<1>1. TypeOK /\ OrderInv /\ HeldInv
  BY DEF IInv
<1>2. /\ i \in 1 .. Len(inflight)
      /\ Len(inflight') = Len(inflight) - 1
      /\ \A j \in 1 .. Len(inflight) - 1 :
           inflight'[j] = IF j < i THEN inflight[j] ELSE inflight[j + 1]
      /\ Len(outcome') = Len(outcome)
      /\ \A n \in 1 .. Len(outcome) :
           outcome'[n] = IF n = inflight[i].op THEN o ELSE outcome[n]
  BY <1>1, FinishProperties
<1>3. Len(queue) \in Nat /\ Len(inflight) \in Nat /\ Len(sent) \in Nat /\ Len(outcome) \in Nat
  BY <1>1, Lengths
<1>4. OrderInv'
  BY <1>1, <1>2 DEF OrderInv
<1>5. \A j \in 1 .. Len(inflight) - 1 : \E k \in 1 .. Len(inflight) :
        k # i /\ inflight'[j] = inflight[k] /\ k = IF j < i THEN j ELSE j + 1
  <2>1. SUFFICES ASSUME NEW j \in 1 .. Len(inflight) - 1
                 PROVE  \E k \in 1 .. Len(inflight) :
                          k # i /\ inflight'[j] = inflight[k] /\ k = IF j < i THEN j ELSE j + 1
    OBVIOUS
  <2> DEFINE k == IF j < i THEN j ELSE j + 1
  <2>2. k \in 1 .. Len(inflight) /\ k # i
    BY ONLY <1>2, <1>3, <2>1
  <2>3. inflight'[j] = inflight[k]
    BY <1>2
  <2>4. QED BY <2>2, <2>3
<1>6. HeldInv'
  <2>1. ASSUME NEW j \in 1 .. Len(inflight')
        PROVE  inflight'[j].op \in 1 .. Len(sent') /\ outcome'[inflight'[j].op] = "pending"
    <3>1. PICK k \in 1 .. Len(inflight) : k # i /\ inflight'[j] = inflight[k]
      BY <1>2, <1>5
    <3>2. /\ inflight[k].op \in 1 .. Len(sent) /\ outcome[inflight[k].op] = "pending"
          /\ inflight[k].op # inflight[i].op
      BY <1>1, <1>2, <3>1 DEF HeldInv
    <3>3. inflight[k].op \in 1 .. Len(outcome)
      BY <1>1, <1>3, <3>2 DEF OrderInv
    <3>4. QED BY <1>2, <3>1, <3>2, <3>3
  <2>2. ASSUME NEW j \in 1 .. Len(inflight'), NEW l \in 1 .. Len(inflight'), j # l
        PROVE  inflight'[j].op # inflight'[l].op
    <3>1. j \in 1 .. Len(inflight) - 1 /\ l \in 1 .. Len(inflight) - 1
      BY <1>2
    <3>2. PICK k \in 1 .. Len(inflight) :
            inflight'[j] = inflight[k] /\ k = IF j < i THEN j ELSE j + 1
      BY <1>5, <3>1
    <3>3. PICK n \in 1 .. Len(inflight) :
            inflight'[l] = inflight[n] /\ n = IF l < i THEN l ELSE l + 1
      BY <1>5, <3>1
    <3>4. k # n
      BY <1>2, <1>3, <2>2, <3>1, <3>2, <3>3
    <3>5. QED BY <1>1, <3>2, <3>3, <3>4 DEF HeldInv
  <2>3. \A n \in Len(sent) + 1 .. Len(outcome) : outcome'[n] = "pending"
    <3>1. inflight[i].op \in 1 .. Len(sent)
      BY <1>1, <1>2 DEF HeldInv
    <3>2. QED BY <1>1, <1>2, <1>3, <3>1 DEF HeldInv
  <2>4. QED BY <1>2, <2>1, <2>2, <2>3 DEF HeldInv
<1>7. QED BY <1>4, <1>6

\* The first half of the PUBACK handler: one unit of quota is on its way back.
LEMMA HandlePubackInv ==
    ASSUME IInv, NEW id \in U16, HandlePuback(id)
    PROVE  Invs'
<1>1. PICK i \in DOMAIN inflight, o \in Outcomes : Finish(i, o)
  BY DEF HandlePuback, Outcomes
<1>2. /\ connected /\ connected' /\ handler = "none" /\ handler' \in {"puback", "puback_mismatch"}
      /\ UNCHANGED <<maxQuota, quota, queue, sent, early, leaked, spurious>>
  BY DEF HandlePuback
<1>3. OrderInv' /\ HeldInv'
  BY <1>1, <1>2, FinishInv
<1>4. /\ Len(inflight') = Len(inflight) - 1 /\ Len(inflight) \in Nat
      /\ quota \in Nat /\ maxQuota \in Nat
      /\ early \in Nat /\ leaked \in Nat /\ spurious \in Nat
  BY <1>1, FinishProperties, Lengths DEF IInv
<1>5. EarlyInv'
  BY <1>2 DEF EarlyInv
<1>6. QuotaInv'
  BY <1>2, <1>4 DEF IInv, QuotaInv, QuotaWithinGrant, QueueOnlyWithoutQuota,
       WindowRespected, QuotaAccounted, Returning
<1>7. QED BY <1>3, <1>5, <1>6 DEF Invs

\* The endings that return no quota.
LEMMA FinishingInv ==
    ASSUME IInv, NEW id \in U16,
           HandlePubrecError(id) \/ HandlePubrecMismatch(id) \/ HandlePubcomp(id)
    PROVE  Invs'
<1>1. PICK i \in DOMAIN inflight, o \in Outcomes : Finish(i, o)
  BY DEF HandlePubrecError, HandlePubrecMismatch, HandlePubcomp, Outcomes
<1>2. /\ connected /\ connected' /\ leaked' = leaked + 1
      /\ handler = "none" /\ handler' \in {"none", "pubrec_mismatch"}
      /\ UNCHANGED <<maxQuota, quota, queue, sent, early, spurious>>
  BY DEF HandlePubrecError, HandlePubrecMismatch, HandlePubcomp
<1>3. OrderInv' /\ HeldInv'
  BY <1>1, <1>2, FinishInv
<1>4. /\ Len(inflight') = Len(inflight) - 1 /\ Len(inflight) \in Nat
      /\ quota \in Nat /\ maxQuota \in Nat
      /\ early \in Nat /\ leaked \in Nat /\ spurious \in Nat
  BY <1>1, FinishProperties, Lengths DEF IInv
<1>5. EarlyInv'
  BY <1>2 DEF EarlyInv
<1>6. QuotaInv'
  <2>1. Returning = 0 /\ Returning' = 0
    BY <1>2 DEF Returning
  <2>2. QED BY <1>2, <1>4, <2>1 DEF IInv, QuotaInv, QuotaWithinGrant,
                 QueueOnlyWithoutQuota, WindowRespected, QuotaAccounted
<1>7. QED BY <1>3, <1>5, <1>6 DEF Invs

\* close() after a PUBREC mismatch.
LEMMA PubrecReturnInv ==
    ASSUME IInv, PubrecReturn
    PROVE  Invs'
<1>1. connected /\ connected'
  BY DEF PubrecReturn, IInv, EarlyInv
<1>2. UNCHANGED <<maxQuota, quota, queue, inflight, sent, outcome, early, leaked, spurious>>
      /\ Returning' = Returning
  BY DEF PubrecReturn, Returning, history
<1>3. OrderInv' /\ HeldInv'
  BY <1>2 DEF IInv, OrderInv, HeldInv
<1>4. EarlyInv'
  BY <1>1 DEF EarlyInv
<1>5. QuotaInv'
  BY <1>1, <1>2 DEF IInv, QuotaInv, QuotaWithinGrant, QueueOnlyWithoutQuota,
       WindowRespected, QuotaAccounted
<1>6. QED BY <1>3, <1>4, <1>5 DEF Invs

\* maybe_send_queued_publish, called with or without a unit of quota to return.
LEMMA MaybeSendInv ==
    ASSUME IInv, MaybeSendQueuedPublish, connected, connected',
           UNCHANGED <<maxQuota, outcome, early, leaked>>,
           \/ PubackReturn
           \/ handler = "none" /\ handler' = handler /\ spurious' = spurious + 1
    PROVE  Invs'
<1>1. TypeOK /\ OrderInv /\ HeldInv /\ QuotaInv
  BY DEF IInv
<1>2. /\ Len(queue) \in Nat /\ Len(inflight) \in Nat
      /\ Len(sent) \in Nat /\ Len(outcome) \in Nat
      /\ (queue = <<>> <=> Len(queue) = 0)
      /\ quota \in Nat /\ maxQuota \in Nat
      /\ early \in Nat /\ leaked \in Nat /\ spurious \in Nat
  BY <1>1, Lengths
<1>3. /\ Returning \in Nat /\ Returning' = 0 /\ spurious' \in Nat
      /\ \/ Returning = 1 /\ spurious' = spurious
         \/ Returning = 0 /\ spurious' = spurious + 1
  BY <1>2 DEF PubackReturn, Returning
<1>4. EarlyInv'
  BY DEF EarlyInv
<1>5. CASE quota >= maxQuota /\ UNCHANGED <<quota, queue, inflight, sent>>
  <2>1. OrderInv' /\ HeldInv'
    BY <1>1, <1>5 DEF OrderInv, HeldInv
  <2>2. QuotaInv'
    BY <1>1, <1>2, <1>3, <1>5 DEF QuotaInv, QuotaWithinGrant, QueueOnlyWithoutQuota,
         WindowRespected, QuotaAccounted
  <2>3. QED BY <1>4, <2>1, <2>2 DEF Invs
<1>6. CASE quota < maxQuota /\ queue = <<>> /\ quota' = quota + 1
           /\ UNCHANGED <<queue, inflight, sent>>
  <2>1. OrderInv' /\ HeldInv'
    BY <1>1, <1>6 DEF OrderInv, HeldInv
  <2>2. QuotaInv'
    BY <1>1, <1>2, <1>3, <1>6 DEF QuotaInv, QuotaWithinGrant, QueueOnlyWithoutQuota,
         WindowRespected, QuotaAccounted
  <2>3. QED BY <1>4, <2>1, <2>2 DEF Invs
<1>7. CASE /\ quota < maxQuota /\ queue # <<>>
           /\ HandedOver(queue[1], quota + 1)
           /\ Len(queue') = Len(queue) - 1
           /\ \A k \in 1 .. Len(queue) - 1 : queue'[k] = queue[k + 1]
  <2>1. queue[1].op = Len(sent) + 1 /\ quota = 0
    BY <1>1, <1>2, <1>7 DEF OrderInv, QuotaInv, QueueOnlyWithoutQuota
  <2>2. /\ quota' = quota
        /\ Len(inflight') = Len(inflight) + 1
        /\ \A i \in 1 .. Len(inflight) : inflight'[i] = inflight[i]
        /\ inflight'[Len(inflight) + 1].op = Len(sent) + 1
        /\ Len(sent') = Len(sent) + 1
        /\ \A k \in 1 .. Len(sent) : sent'[k] = sent[k]
        /\ sent'[Len(sent) + 1] = Len(sent) + 1
    BY <1>2, <1>7, <2>1 DEF HandedOver
  <2>3. OrderInv'
    <3>0. outcome' = outcome /\ Len(queue') = Len(queue) - 1 /\ Len(sent') = Len(sent) + 1
      BY <1>7, <2>2
    <3>1. Len(sent') + Len(queue') = Len(outcome')
      <4>1. Len(sent) + Len(queue) = Len(outcome)
        BY <1>1 DEF OrderInv
      <4>2. QED BY <1>2, <3>0, <4>1
    <3>2. \A k \in 1 .. Len(sent) : sent'[k] = k
      BY <1>1, <2>2 DEF OrderInv
    <3>3. \A k \in 1 .. Len(sent') : sent'[k] = k
      BY <1>2, <2>2, <3>2
    <3>4. ASSUME NEW k \in 1 .. Len(queue')
          PROVE  queue'[k].op = Len(sent') + k
      <4>1. k \in 1 .. Len(queue) - 1 /\ k + 1 \in 1 .. Len(queue)
        BY <1>2, <1>7
      <4>2. queue'[k] = queue[k + 1]
        BY <1>7, <4>1
      <4>3. queue[k + 1].op = Len(sent) + (k + 1)
        BY <1>1, <4>1 DEF OrderInv
      <4>4. QED BY <1>2, <2>2, <4>1, <4>2, <4>3
    <3>5. QED BY <3>1, <3>3, <3>4 DEF OrderInv
  <2>4. HeldInv'
    <3>1. Len(sent) < Len(outcome)
      BY <1>1, <1>2, <1>7 DEF OrderInv
    <3>2. QED BY <1>1, <1>2, <1>7, <2>1, <3>1, HandedOverHeld
  <2>5. QuotaInv'
    <3>1. QuotaWithinGrant' /\ QueueOnlyWithoutQuota'
      BY <1>1, <2>1, <2>2 DEF QuotaInv, QuotaWithinGrant, QueueOnlyWithoutQuota
    <3>2. WindowRespected'
      BY <1>1, <1>2, <1>3, <2>2 DEF QuotaInv, WindowRespected
    <3>3. QuotaAccounted'
      BY <1>1, <1>2, <1>3, <2>2 DEF QuotaInv, QuotaAccounted
    <3>4. QED BY <3>1, <3>2, <3>3 DEF QuotaInv
  <2>6. QED BY <1>4, <2>3, <2>4, <2>5 DEF Invs
<1>8. QED BY <1>1, <1>5, <1>6, <1>7, MaybeSendEffect
-----------------------------------------------------------------------------
(* The theorems *)

LEMMA InitInv == Init => Invs
<1> SUFFICES ASSUME Init PROVE Invs
  OBVIOUS
<1>1. Len(queue) = 0 /\ Len(inflight) = 0 /\ Len(sent) = 0 /\ Len(outcome) = 0
  BY EmptySeq DEF Init
<1>2. OrderInv /\ HeldInv
  BY <1>1 DEF OrderInv, HeldInv
<1>3. EarlyInv
  BY <1>1, EarlyAssumption, QuotaAssumption DEF EarlyInv, Init
<1>4. QuotaInv
  BY <1>1, U16MaxAssumption, QuotaAssumption
     DEF Init, QuotaInv, QuotaWithinGrant, QueueOnlyWithoutQuota, WindowRespected, QuotaAccounted
<1>5. QED BY <1>2, <1>3, <1>4 DEF Invs

LEMMA StepInv ==
    ASSUME IInv, [Next]_vars
    PROVE  Invs'
<1>1. ASSUME NEW qos \in QosLevels, Publish(qos) PROVE Invs'
  BY <1>1, PublishInv
<1>2. ASSUME NEW rm \in ReceiveMaxima, HandleConnack(rm) PROVE Invs'
  BY <1>2, HandleConnackInv
<1>3. ASSUME NEW id \in U16, Handle(id) PROVE Invs'
  <2>1. CASE HandlePuback(id)
    BY <2>1, HandlePubackInv
  <2>2. CASE HandleUnknownPuback(id)
    BY <2>2, MaybeSendInv DEF HandleUnknownPuback
  <2>3. CASE HandlePubrec(id)
    BY <2>3, HandlePubrecInv
  <2>4. CASE HandlePubrecError(id) \/ HandlePubrecMismatch(id) \/ HandlePubcomp(id)
    BY <2>4, FinishingInv
  <2>5. CASE HandleUnknownPubrec(id)
    BY <2>5, FrameInv DEF HandleUnknownPubrec, history
  <2>6. QED BY <1>3, <2>1, <2>2, <2>3, <2>4, <2>5 DEF Handle
<1>4. CASE PubackReturn
  <2>1. connected /\ connected' /\ UNCHANGED <<maxQuota, outcome, early, leaked>>
    BY <1>4 DEF PubackReturn, IInv, EarlyInv
  <2>2. MaybeSendQueuedPublish
    BY <1>4 DEF PubackReturn
  <2>3. QED BY <1>4, <2>1, <2>2, MaybeSendInv
<1>5. CASE PubrecReturn
  BY <1>5, PubrecReturnInv
<1>6. CASE PublishQos0 \/ TakeRequestIdentifier \/ Transmit \/ Close \/ UNCHANGED vars
  BY <1>6, FrameInv DEF PublishQos0, TakeRequestIdentifier, Transmit, Close, vars, history
<1>7. QED BY <1>1, <1>2, <1>3, <1>4, <1>5, <1>6 DEF Next, User, Return

LEMMA InitIInv == Init => IInv
BY InitType, InitInv DEF IInv, Invs

LEMMA StepIInv == IInv /\ [Next]_vars => IInv'
<1>1. IInv => TypeOK
  BY DEF IInv
<1>2. IInv /\ [Next]_vars => TypeOK'
  BY <1>1, TypeStep
<1>3. QED BY <1>2, StepInv DEF IInv, Invs

\* The invariant all the others follow from.
THEOREM Inductive == Spec => []IInv
BY InitIInv, StepIInv, PTL DEF Spec

\* Publishes leave in the order in which they were started, with none lost
\* and none sent twice, even when receivers publish from inside the PUBACK
\* handler and whatever the server acknowledges.
THEOREM OrderCorrect == Spec => []SentInOrder
<1>1. IInv => SentInOrder
  <2> SUFFICES ASSUME IInv PROVE SentInOrder
    OBVIOUS
  <2> DEFINE q == Ops(queue)
             all == [n \in 1 .. Len(outcome) |-> n]
  <2>1. TypeOK /\ OrderInv
    BY DEF IInv
  <2>2. /\ Len(queue) \in Nat /\ Len(sent) \in Nat /\ Len(outcome) \in Nat
        /\ DOMAIN queue = 1 .. Len(queue)
    BY <2>1, Lengths
  <2>3. q = [i \in 1 .. Len(queue) |-> queue[i].op]
    BY <2>2 DEF Ops
  <2>4. \A i \in 1 .. Len(queue) : queue[i].op \in Nat
    BY <2>1, <2>2 DEF OrderInv
  <2>5. q \in Seq(Nat) /\ Len(q) = Len(queue)
    BY <2>2, <2>3, <2>4
  <2>6. sent \in Seq(Nat)
    <3>1. 1 .. MaxPublishes \subseteq Nat
      OBVIOUS
    <3>2. sent \in Seq(1 .. MaxPublishes)
      BY <2>1 DEF TypeOK
    <3>3. QED BY <3>1, <3>2, SeqMonotonic
  <2>7. all \in Seq(Nat) /\ Len(all) = Len(outcome)
    BY <2>2
  <2> HIDE DEF q, all
  <2>8. /\ sent \o q \in Seq(Nat)
        /\ Len(sent \o q) = Len(sent) + Len(q)
        /\ \A k \in 1 .. Len(sent) + Len(q) :
             (sent \o q)[k] = IF k <= Len(sent) THEN sent[k] ELSE q[k - Len(sent)]
    BY <2>5, <2>6, ConcatProperties
  <2>9. Len(sent) + Len(queue) = Len(outcome)
    BY <2>1 DEF OrderInv
  <2>10. ASSUME NEW k \in 1 .. Len(outcome)
         PROVE  (sent \o q)[k] = all[k]
    <3>1. all[k] = k
      BY DEF all
    <3>2. CASE k <= Len(sent)
      <4>1. k \in 1 .. Len(sent)
        BY <2>2, <3>2
      <4>2. sent[k] = k
        BY <2>1, <4>1 DEF OrderInv
      <4>3. QED BY <2>2, <2>5, <2>8, <2>9, <3>1, <3>2, <4>2
    <3>3. CASE ~(k <= Len(sent))
      <4>1. k - Len(sent) \in 1 .. Len(queue)
        BY <2>2, <2>9, <3>3
      <4>2. q[k - Len(sent)] = queue[k - Len(sent)].op
        BY <2>3, <4>1
      <4>3. queue[k - Len(sent)].op = Len(sent) + (k - Len(sent))
        BY <2>1, <4>1 DEF OrderInv
      <4>4. Len(sent) + (k - Len(sent)) = k
        BY <2>2
      <4>5. QED BY <2>2, <2>5, <2>8, <2>9, <3>1, <3>3, <4>2, <4>3, <4>4
    <3>4. QED BY <3>2, <3>3
  <2>11. sent \o q = all
    BY <2>5, <2>7, <2>8, <2>9, <2>10, SeqEqual
  <2>12. QED BY <2>11 DEF SentInOrder, q, all
<1>2. QED BY <1>1, Inductive, PTL

\* A publish waits only while there is no quota.
THEOREM QueueCorrect == Spec => []QueueOnlyWithoutQuota
<1>1. IInv => QueueOnlyWithoutQuota
  BY DEF IInv, QuotaInv
<1>2. QED BY <1>1, Inductive, PTL

\* The client's quota is never above the grant, for any server.
THEOREM GrantCorrect == Spec => []QuotaWithinGrant
<1>1. IInv => QuotaWithinGrant
  BY DEF IInv, QuotaInv
<1>2. QED BY <1>1, Inductive, PTL

\* The client keeps to the receive maximum of the server.
THEOREM WindowCorrect == Spec => []WindowRespected
<1>1. IInv => WindowRespected
  BY DEF IInv, QuotaInv
<1>2. QED BY <1>1, Inductive, PTL

\* No unit of quota is lost except to exchanges that end without a PUBACK.
THEOREM QuotaCorrect == Spec => []QuotaAccounted
<1>1. IInv => QuotaAccounted
  BY DEF IInv, QuotaInv
<1>2. QED BY <1>1, Inductive, PTL
-----------------------------------------------------------------------------
(* Where the publishes without a fate are *)

\* What was handed over and has no fate is in flight: no handler drops an
\* entry without telling its receiver.
CoverInv ==
    \A n \in 1 .. Len(sent) :
        outcome[n] = "pending" => \E i \in 1 .. Len(inflight) : inflight[i].op = n

LEMMA HandedOverCover ==
    ASSUME IInv, CoverInv, NEW m, NEW q, HandedOver(m, q), m.op = Len(sent) + 1,
           \A n \in 1 .. Len(outcome) : outcome'[n] = outcome[n]
    PROVE  CoverInv'
<1>1. /\ Len(inflight) \in Nat /\ Len(sent) \in Nat /\ Len(queue) \in Nat /\ Len(outcome) \in Nat
      /\ Len(sent) + Len(queue) = Len(outcome)
  BY Lengths DEF IInv, OrderInv
<1>2. /\ Len(inflight') = Len(inflight) + 1 /\ Len(sent') = Len(sent) + 1
      /\ \A i \in 1 .. Len(inflight) : inflight'[i] = inflight[i]
      /\ inflight'[Len(inflight) + 1].op = Len(sent) + 1
  BY DEF HandedOver
<1> SUFFICES ASSUME NEW n \in 1 .. Len(sent'), outcome'[n] = "pending"
             PROVE  \E i \in 1 .. Len(inflight') : inflight'[i].op = n
  BY DEF CoverInv
<1>3. CASE n = Len(sent) + 1
  <2>1. Len(inflight) + 1 \in 1 .. Len(inflight')
    BY <1>1, <1>2
  <2>2. QED BY <1>2, <1>3, <2>1
<1>4. CASE n # Len(sent) + 1
  <2>1. n \in 1 .. Len(sent) /\ n \in 1 .. Len(outcome)
    BY <1>1, <1>2, <1>4
  <2>2. PICK i \in 1 .. Len(inflight) : inflight[i].op = n
    BY <2>1 DEF CoverInv
  <2>3. i \in 1 .. Len(inflight') /\ inflight'[i].op = n
    BY <1>1, <1>2, <2>2
  <2>4. QED BY <2>3
<1>5. QED BY <1>3, <1>4

LEMMA FinishCover ==
    ASSUME IInv, CoverInv, NEW i \in DOMAIN inflight, NEW o \in Outcomes \ {"pending"},
           Finish(i, o), sent' = sent
    PROVE  CoverInv'
<1>1. /\ i \in 1 .. Len(inflight) /\ Len(inflight) \in Nat
      /\ Len(inflight') = Len(inflight) - 1
      /\ \A j \in 1 .. Len(inflight) - 1 :
           inflight'[j] = IF j < i THEN inflight[j] ELSE inflight[j + 1]
      /\ \A n \in 1 .. Len(outcome) :
           outcome'[n] = IF n = inflight[i].op THEN o ELSE outcome[n]
  BY FinishProperties, Lengths DEF IInv
<1>2. /\ Len(sent) \in Nat /\ Len(queue) \in Nat /\ Len(outcome) \in Nat
      /\ Len(sent) + Len(queue) = Len(outcome)
  BY Lengths DEF IInv, OrderInv
<1> SUFFICES ASSUME NEW n \in 1 .. Len(sent), outcome'[n] = "pending"
             PROVE  \E j \in 1 .. Len(inflight') : inflight'[j].op = n
  BY DEF CoverInv
<1>3. n \in 1 .. Len(outcome)
  BY <1>2
<1>4. n # inflight[i].op /\ outcome[n] = "pending"
  BY <1>1, <1>3
<1>5. PICK j \in 1 .. Len(inflight) : inflight[j].op = n
  BY <1>4 DEF CoverInv
<1>6. CASE j < i
  <2>1. j \in 1 .. Len(inflight') /\ inflight'[j].op = n
    BY <1>1, <1>5, <1>6
  <2>2. QED BY <2>1
<1>7. CASE j > i
  <2>1. j - 1 \in 1 .. Len(inflight') /\ ~(j - 1 < i) /\ (j - 1) + 1 = j
    BY <1>1, <1>7
  <2>2. inflight'[j - 1] = inflight[j]
    BY <1>1, <2>1
  <2>3. QED BY <1>5, <2>1, <2>2
<1>8. QED BY <1>1, <1>4, <1>5, <1>6, <1>7

LEMMA MaybeSendCover ==
    ASSUME IInv, CoverInv, MaybeSendQueuedPublish, outcome' = outcome
    PROVE  CoverInv'
<1>1. CASE UNCHANGED <<inflight, sent>>
  BY <1>1 DEF CoverInv
<1>2. CASE queue # <<>> /\ HandedOver(queue[1], quota + 1)
  <2>1. Len(queue) \in Nat /\ Len(queue) # 0
    BY <1>2, Lengths DEF IInv
  <2>2. queue[1].op = Len(sent) + 1
    BY <2>1 DEF IInv, OrderInv
  <2>3. QED BY <1>2, <2>2, HandedOverCover
<1>3. QED BY <1>1, <1>2, MaybeSendEffect DEF IInv

LEMMA StepCover ==
    ASSUME IInv, CoverInv, [Next]_vars
    PROVE  CoverInv'
<1>1. ASSUME NEW qos \in QosLevels, Publish(qos) PROVE CoverInv'
  <2> DEFINE m == [op |-> Len(outcome) + 1, qos |-> qos, id |-> nextId]
  <2>1. /\ Len(sent) \in Nat /\ Len(queue) \in Nat /\ Len(outcome) \in Nat
        /\ Len(sent) + Len(queue) = Len(outcome) /\ (queue = <<>> <=> Len(queue) = 0)
        /\ quota \in Nat
    BY Lengths DEF IInv, OrderInv
  <2>2. \A n \in 1 .. Len(outcome) : outcome'[n] = outcome[n]
    <3>1. "pending" \in Outcomes /\ outcome' = Append(outcome, "pending")
      BY <1>1 DEF Publish, Outcomes
    <3>2. QED BY <3>1, AppendProperties DEF IInv, TypeOK
  <2>3. CASE StartPublish(m, quota) /\ quota > 0
    <3>1. m \in Message /\ m.op = Len(outcome) + 1
      <4>1. Len(outcome) + 1 \in 1 .. MaxPublishes
        BY <1>1, <2>1, BoundsAssumption DEF Publish
      <4>2. nextId \in U16
        BY U16MaxAssumption DEF IInv, TypeOK, U16
      <4>3. QED BY <4>1, <4>2 DEF Message
    <3>2. queue = <<>>
      BY <2>1, <2>3 DEF IInv, QuotaInv, QueueOnlyWithoutQuota
    <3>3. quota \in U16
      BY DEF IInv, TypeOK
    <3> HIDE DEF m
    <3>4. HandedOver(m, quota)
      BY <2>3, <3>1, <3>3, StartPublishEffect DEF IInv
    <3>5. QED BY <2>1, <2>2, <3>1, <3>2, <3>4, HandedOverCover
  <2>4. CASE UNCHANGED <<inflight, sent>>
    <3>1. \A n \in 1 .. Len(sent) : n \in 1 .. Len(outcome)
      BY <2>1
    <3>2. QED BY <2>2, <2>4, <3>1 DEF CoverInv
  <2>5. QED BY <1>1, <2>3, <2>4 DEF Publish
<1>2. ASSUME NEW id \in U16, Handle(id) PROVE CoverInv'
  <2>1. CASE HandleUnknownPuback(id)
    BY <2>1, MaybeSendCover DEF HandleUnknownPuback
  <2>2. CASE HandlePubrec(id)
    <3>1. /\ Len(inflight') = Len(inflight)
          /\ \A j \in 1 .. Len(inflight) : inflight'[j].op = inflight[j].op
      BY <2>2, HandlePubrecProperties DEF IInv
    <3>2. UNCHANGED <<sent, outcome>>
      BY <2>2 DEF HandlePubrec, history
    <3>3. QED BY <3>1, <3>2 DEF CoverInv
  <2>3. CASE HandlePuback(id) \/ HandlePubrecError(id) \/ HandlePubrecMismatch(id)
             \/ HandlePubcomp(id)
    <3>1. sent' = sent
      BY <2>3 DEF HandlePuback, HandlePubrecError, HandlePubrecMismatch, HandlePubcomp
    <3>2. PICK i \in DOMAIN inflight, o \in Outcomes \ {"pending"} : Finish(i, o)
      BY <2>3 DEF HandlePuback, HandlePubrecError, HandlePubrecMismatch, HandlePubcomp, Outcomes
    <3>3. QED BY <3>1, <3>2, FinishCover
  <2>4. CASE HandleUnknownPubrec(id)
    BY <2>4 DEF HandleUnknownPubrec, history, CoverInv
  <2>5. QED BY <1>2, <2>1, <2>2, <2>3, <2>4 DEF Handle
<1>3. CASE PubackReturn
  BY <1>3, MaybeSendCover DEF PubackReturn
<1>4. CASE \/ PublishQos0 \/ TakeRequestIdentifier \/ Transmit \/ Close \/ UNCHANGED vars
           \/ PubrecReturn
           \/ \E rm \in ReceiveMaxima : HandleConnack(rm)
  BY <1>4 DEF PublishQos0, TakeRequestIdentifier, Transmit, Close, HandleConnack,
       PubrecReturn, vars, history, CoverInv
<1>5. QED BY <1>1, <1>2, <1>3, <1>4 DEF Next, User, Return

\* A publish whose receiver was not told its fate is queued or in flight, once,
\* and a finished one is in neither place, whatever the server acknowledges:
\* every handler that erases an entry tells its receiver, and none tells two.
THEOREM HeldCorrect == Spec => []PendingHeldOnce
<1>1. Init => CoverInv
  BY EmptySeq DEF Init, CoverInv
<1>2. IInv /\ CoverInv /\ [Next]_vars => CoverInv'
  BY StepCover
<1>3. IInv /\ CoverInv => PendingHeldOnce
  <2> SUFFICES ASSUME IInv, CoverInv, NEW n \in DOMAIN outcome
               PROVE  Cardinality({i \in DOMAIN queue : queue[i].op = n})
                        + Cardinality({i \in DOMAIN inflight : inflight[i].op = n})
                      = IF outcome[n] = "pending" THEN 1 ELSE 0
    BY DEF PendingHeldOnce
  <2> DEFINE queued == {i \in DOMAIN queue : queue[i].op = n}
             flying == {i \in DOMAIN inflight : inflight[i].op = n}
  <2>1. /\ Len(sent) \in Nat /\ Len(queue) \in Nat /\ Len(outcome) \in Nat /\ Len(inflight) \in Nat
        /\ DOMAIN queue = 1 .. Len(queue) /\ DOMAIN inflight = 1 .. Len(inflight)
        /\ n \in 1 .. Len(outcome) /\ Len(sent) + Len(queue) = Len(outcome)
        /\ \A k \in 1 .. Len(queue) : queue[k].op = Len(sent) + k
    BY Lengths DEF IInv, OrderInv
  <2>2. Cardinality({}) = 0 /\ \A i : Cardinality({i}) = 1
    BY FS_EmptySet, FS_Singleton
  <2> SUFFICES Cardinality(queued) + Cardinality(flying) = IF outcome[n] = "pending" THEN 1 ELSE 0
    OBVIOUS
  <2>3. CASE n \in 1 .. Len(sent)
    <3>1. queued = {}
      BY <2>1, <2>3
    <3>2. CASE outcome[n] = "pending"
      <4>1. PICK i \in 1 .. Len(inflight) : inflight[i].op = n
        BY <2>3, <3>2 DEF CoverInv
      <4>2. flying = {i}
        BY <2>1, <4>1 DEF IInv, HeldInv
      <4>3. Cardinality(queued) = 0 /\ Cardinality(flying) = 1
        BY <2>2, <3>1, <4>2
      <4> HIDE DEF queued, flying
      <4>4. QED BY <3>2, <4>3
    <3>3. CASE outcome[n] # "pending"
      <4>1. flying = {}
        BY <2>1, <3>3 DEF IInv, HeldInv
      <4>2. Cardinality(queued) = 0 /\ Cardinality(flying) = 0
        BY <2>2, <3>1, <4>1
      <4> HIDE DEF queued, flying
      <4>3. QED BY <3>3, <4>2
    <3>4. QED BY <3>2, <3>3
  <2>4. CASE n \notin 1 .. Len(sent)
    <3>1. n \in Len(sent) + 1 .. Len(outcome)
      BY <2>1, <2>4
    <3>2. outcome[n] = "pending"
      BY <3>1 DEF IInv, HeldInv
    <3>3. flying = {}
      BY <2>1, <2>4 DEF IInv, HeldInv
    <3>4. n - Len(sent) \in 1 .. Len(queue)
      BY <2>1, <3>1
    <3>5. \A k \in 1 .. Len(queue) : queue[k].op = n <=> k = n - Len(sent)
      BY <2>1
    <3>6. queued = {n - Len(sent)}
      BY <2>1, <3>4, <3>5
    <3>7. Cardinality(queued) = 1 /\ Cardinality(flying) = 0
      BY <2>2, <3>3, <3>6
    <3> HIDE DEF queued, flying
    <3>8. QED BY <3>2, <3>7
  <2>5. QED BY <2>3, <2>4
<1>4. Spec => []CoverInv
  BY <1>1, <1>2, Inductive, PTL DEF Spec
<1>5. QED BY <1>3, <1>4, Inductive, PTL
-----------------------------------------------------------------------------
(* Fates, and the abstract specification *)

\* What any step does to the fates and to the order of hand-over.
StartsAndWaits == outcome' = Append(outcome, "pending") /\ sent' = sent
StartsAndHandsOver ==
    /\ outcome' = Append(outcome, "pending")
    /\ Len(sent) = Len(outcome)
    /\ sent' = Append(sent, Len(sent) + 1)
HandsOver ==
    /\ Len(sent) < Len(outcome)
    /\ sent' = Append(sent, Len(sent) + 1)
    /\ outcome' = outcome
Tells ==
    \E n \in 1 .. Len(sent), o \in Outcomes \ {"pending"} :
        /\ outcome[n] = "pending"
        /\ outcome' = [outcome EXCEPT ![n] = o]
        /\ sent' = sent

LEMMA PublishSteps ==
    ASSUME IInv, NEW qos \in QosLevels, Publish(qos)
    PROVE  StartsAndWaits \/ StartsAndHandsOver
<1> DEFINE m == [op |-> Len(outcome) + 1, qos |-> qos, id |-> nextId]
<1>1. outcome' = Append(outcome, "pending")
  BY DEF Publish
<1>2. CASE StartPublish(m, quota) /\ quota > 0
  <2>1. queue = <<>>
    BY <1>2, Lengths DEF IInv, QuotaInv, QueueOnlyWithoutQuota
  <2>2. Len(sent) = Len(outcome)
    BY <2>1, Lengths DEF IInv, OrderInv
  <2>3. sent' = Append(sent, Len(outcome) + 1)
    BY <1>2 DEF StartPublish
  <2>4. QED BY <1>1, <2>2, <2>3 DEF StartsAndHandsOver
<1>3. CASE sent' = sent
  BY <1>1, <1>3 DEF StartsAndWaits
<1>4. QED BY <1>2, <1>3 DEF Publish

LEMMA MaybeSendSteps ==
    ASSUME IInv, MaybeSendQueuedPublish, outcome' = outcome
    PROVE  HandsOver \/ UNCHANGED <<sent, outcome>>
<1>1. CASE queue # <<>> /\ HandedOver(queue[1], quota + 1)
  <2>1. /\ Len(queue) \in Nat /\ Len(queue) # 0 /\ Len(sent) \in Nat /\ Len(outcome) \in Nat
    BY <1>1, Lengths DEF IInv
  <2>2. queue[1].op = Len(sent) + 1
    BY <2>1 DEF IInv, OrderInv
  <2>3. Len(sent) + Len(queue) = Len(outcome)
    BY DEF IInv, OrderInv
  <2>4. Len(sent) < Len(outcome)
    BY <2>1, <2>3
  <2>5. sent' = Append(sent, Len(sent) + 1)
    BY <1>1, <2>2 DEF HandedOver
  <2>6. QED BY <2>4, <2>5 DEF HandsOver
<1>2. CASE sent' = sent
  BY <1>2
<1>3. TypeOK
  BY DEF IInv
<1>4. QED BY <1>1, <1>2, <1>3, MaybeSendEffect

LEMMA FinishSteps ==
    ASSUME IInv, NEW i \in DOMAIN inflight, NEW o \in Outcomes \ {"pending"},
           Finish(i, o), sent' = sent
    PROVE  Tells
<1>1. i \in 1 .. Len(inflight)
  BY FinishProperties DEF IInv
<1>2. inflight[i].op \in 1 .. Len(sent) /\ outcome[inflight[i].op] = "pending"
  BY <1>1 DEF IInv, HeldInv
<1>3. outcome' = [outcome EXCEPT ![inflight[i].op] = o]
  BY DEF Finish
<1>4. QED BY <1>2, <1>3 DEF Tells

\* The only things a step does to the fates and the order.
LEMMA Steps ==
    ASSUME IInv, [Next]_vars
    PROVE  \/ StartsAndWaits \/ StartsAndHandsOver \/ HandsOver \/ Tells
           \/ UNCHANGED <<sent, outcome>>
<1>1. ASSUME NEW qos \in QosLevels, Publish(qos) PROVE StartsAndWaits \/ StartsAndHandsOver
  BY <1>1, PublishSteps
<1>2. ASSUME NEW id \in U16, Handle(id)
      PROVE  HandsOver \/ Tells \/ UNCHANGED <<sent, outcome>>
  <2>1. CASE HandleUnknownPuback(id)
    BY <2>1, MaybeSendSteps DEF HandleUnknownPuback
  <2>2. CASE HandlePubrec(id) \/ HandleUnknownPubrec(id)
    BY <2>2 DEF HandlePubrec, HandleUnknownPubrec, history
  <2>3. CASE HandlePuback(id) \/ HandlePubrecError(id) \/ HandlePubrecMismatch(id)
             \/ HandlePubcomp(id)
    <3>1. sent' = sent
      BY <2>3 DEF HandlePuback, HandlePubrecError, HandlePubrecMismatch, HandlePubcomp
    <3>2. PICK i \in DOMAIN inflight, o \in Outcomes \ {"pending"} : Finish(i, o)
      BY <2>3 DEF HandlePuback, HandlePubrecError, HandlePubrecMismatch, HandlePubcomp, Outcomes
    <3>3. QED BY <3>1, <3>2, FinishSteps
  <2>4. QED BY <1>2, <2>1, <2>2, <2>3 DEF Handle
<1>3. CASE PubackReturn
  BY <1>3, MaybeSendSteps DEF PubackReturn
<1>4. CASE \/ PublishQos0 \/ TakeRequestIdentifier \/ Transmit \/ Close \/ UNCHANGED vars
           \/ PubrecReturn
           \/ \E rm \in ReceiveMaxima : HandleConnack(rm)
  BY <1>4 DEF PublishQos0, TakeRequestIdentifier, Transmit, Close, HandleConnack,
       PubrecReturn, vars, history
<1>5. QED BY <1>1, <1>2, <1>3, <1>4 DEF Next, User, Return

\* A receiver is told the fate of its publish at most once, for any server.
THEOREM FateCorrect == Spec => FateIsFinal
<1> DEFINE Final == \A n \in DOMAIN outcome : outcome[n] # "pending" => outcome'[n] = outcome[n]
<1>1. IInv /\ [Next]_vars => [Final]_vars
  <2> SUFFICES ASSUME IInv, [Next]_vars PROVE Final
    OBVIOUS
  <2>1. outcome \in Seq(Outcomes) /\ DOMAIN outcome = 1 .. Len(outcome) /\ Len(outcome) \in Nat
    BY LenProperties DEF IInv, TypeOK
  <2>2. CASE outcome' = Append(outcome, "pending")
    <3>1. "pending" \in Outcomes
      BY DEF Outcomes
    <3>2. QED BY <2>1, <2>2, <3>1, AppendProperties
  <2>3. CASE Tells
    BY <2>1, <2>3 DEF Tells
  <2>4. CASE outcome' = outcome
    BY <2>4
  <2>5. QED BY <2>2, <2>3, <2>4, Steps DEF StartsAndWaits, StartsAndHandsOver, HandsOver
<1>2. QED BY <1>1, Inductive, PTL DEF Spec, FateIsFinal

\* The publishing half of the client implements PublisherContract.
THEOREM ContractCorrect == Spec => ImplementsContract
<1>1. Init => Contract!Init
  BY DEF Init, Contract!Init
<1>2. IInv /\ [Next]_vars => [Contract!Next]_Contract!vars
  <2> SUFFICES ASSUME IInv, [Next]_vars PROVE [Contract!Next]_Contract!vars
    OBVIOUS
  <2>1. Len(sent) \in Nat /\ Len(outcome) \in Nat
    BY Lengths DEF IInv
  <2>2. CASE StartsAndWaits
    BY <2>2 DEF StartsAndWaits, Contract!Next, Contract!StartAndWait, Contract!Start
  <2>3. CASE StartsAndHandsOver
    BY <2>1, <2>3 DEF StartsAndHandsOver, Contract!Next, Contract!StartAndHandOver,
         Contract!Start, Contract!HandOver
  <2>4. CASE HandsOver
    BY <2>4 DEF HandsOver, Contract!Next, Contract!HandOverNext, Contract!HandOver
  <2>5. CASE Tells
    BY <2>5 DEF Tells, Contract!Next, Contract!Tell
  <2>6. CASE UNCHANGED <<sent, outcome>>
    BY <2>6 DEF Contract!vars
  <2>7. QED BY <2>2, <2>3, <2>4, <2>5, <2>6, Steps
<1>3. QED BY <1>1, <1>2, Inductive, PTL DEF Spec, ImplementsContract, Contract!Spec

-----------------------------------------------------------------------------
(* THE CLIENT AND ITS SERVER *)

Connack == [type : {"connack"}, receiveMaximum : ReceiveMaxima]
Acknowledgement ==
    [type : {"puback", "pubrec", "refused", "pubcomp"}, op : 0 .. MaxPublishes, id : U16]
ServerPacket == Connack \cup Acknowledgement
Stages == {"ack_due", "rec_due", "await_rel", "comp_due"}
Exchange == [op : 0 .. MaxPublishes, id : U16, stage : Stages]

SessionTypeOK ==
    /\ toClient \in Seq(ServerPacket)
    /\ exchanges \in Seq(Exchange)
    /\ shared \subseteq 1 .. MaxPublishes

\* The quality of service a token belongs to.
QosOfPacket(p) == IF p.type = "pubrel" THEN 2 ELSE p.qos
QosOfDuty(x) == IF x.stage = "ack_due" THEN 1 ELSE 2
QosOfAck(p) == IF p.type = "puback" THEN 1 ELSE 2

\* Tokens with an identifier that belong to a quality of service in Q, and the
\* publishes in flight they are about.
Both == {1, 2}
PacketsOf(id, Q) == {p \in Packet : p.id = id /\ QosOfPacket(p) \in Q}
DutiesOf(id, Q) == {x \in Exchange : x.id = id /\ x.stage # "await_rel" /\ QosOfDuty(x) \in Q}
AcksOf(id, Q) == {p \in Acknowledgement : p.id = id /\ QosOfAck(p) \in Q}
EntriesOf(id, Q) == {e \in InFlight : e.id = id /\ e.qos \in Q}

Tokens(id, Q) ==
    Occurrences(wire, PacketsOf(id, Q)) + Occurrences(exchanges, DutiesOf(id, Q))
        + Occurrences(toClient, AcksOf(id, Q))
Entries(id, Q) == Occurrences(inflight, EntriesOf(id, Q))

\* The exchanges that await a PUBREL, and what is to bring it.
AwaitsOf(id) == {x \in Exchange : x.id = id /\ x.stage = "await_rel"}
PubrelsOf(id) == {p \in Packet : p.id = id /\ p.type = "pubrel"}
PubrecsOf(id) == {p \in Acknowledgement : p.id = id /\ p.type = "pubrec"}
Awaiting(id) == Occurrences(exchanges, AwaitsOf(id))
Coming(id) == Occurrences(wire, PubrelsOf(id)) + Occurrences(toClient, PubrecsOf(id))

\* The client is inside the handler of a PUBREC for a QoS 1 publish, and will
\* close the socket.
Closing == IF handler = "pubrec_mismatch" THEN 1 ELSE 0

\* What a window must leave room for: duties, and packets that become one, and
\* what the client may still send.
LoadPackets == {p \in Packet : QosOfPacket(p) \in Both}
LoadDuties == {x \in Exchange : x.stage # "await_rel"}
LoadAcks == {p \in Acknowledgement : p.type \in {"puback", "pubrec"}}
Load ==
    Occurrences(wire, LoadPackets) + Occurrences(exchanges, LoadDuties)
        + Occurrences(toClient, LoadAcks)
Room == Granted - IF connected THEN quota + Returning + Closing ELSE 0

\* Two publishes in flight with one identifier are in `shared', and what a
\* publish waits for first is what its quality of service says.
SharedInv ==
    /\ \A e, f \in ToSet(inflight) : e.op # f.op /\ e.id = f.id => e.op \in shared
    /\ \A e \in ToSet(inflight) : e.state = "waiting_puback" <=> e.qos = 1

\* No more tokens than publishes; until an acknowledgement of the wrong kind, no
\* more of QoS 2 than publishes of QoS 2.
Healthy == open /\ handler # "puback_mismatch"
TokenInv ==
    /\ \A id \in U16 : Tokens(id, Both) <= Entries(id, Both)
    /\ Healthy => \A id \in U16 : Tokens(id, {2}) <= Entries(id, {2})

\* What brings the PUBREL is under way, for all exchanges that await one but
\* for that with the identifier x of the PUBREC being handled; another publish has it.
AwaitInvFor(x) ==
    /\ \A id \in U16 : Awaiting(id) <= Coming(id) + IF id = x THEN Closing ELSE 0
    /\ Closing = 1 => \E e \in ToSet(inflight) : e.id = x
AwaitInv == open => \E x \in U16 : AwaitInvFor(x)

LoadInv == Load <= Room

\* The tokens with the identifier of a publish that never shared it are its own.
OwnPackets(e) ==
    \A p \in ToSet(wire) : p.id = e.id =>
        /\ p.type = "publish" /\ p.qos # 0 => p.op = e.op /\ p.qos = e.qos
        /\ p.type = "pubrel" => e.qos = 2
OwnAcks(e) ==
    \A p \in ToSet(toClient) : p.type # "connack" /\ p.id = e.id =>
        p.op = e.op /\ (p.type = "puback" <=> e.qos = 1)
OwnDuties(e) ==
    \A x \in ToSet(exchanges) : x.id = e.id => x.op = e.op /\ (x.stage = "ack_due" <=> e.qos = 1)
OwnAwait(e) ==
    (\E p \in ToSet(wire) : p \in PubrelsOf(e.id)) \/ (\E p \in ToSet(toClient) : p \in PubrecsOf(e.id))
        => \E x \in ToSet(exchanges) : x \in AwaitsOf(e.id)
Own(e) == OwnPackets(e) /\ OwnAcks(e) /\ (open => OwnDuties(e) /\ OwnAwait(e))
OwnInv == \A e \in ToSet(inflight) : e.op \notin shared => Own(e)

\* Once the socket is closed the server gets and does nothing more.
ClosedWindow == ~open => ServerWindow

SessionIInv ==
    IInv /\ SessionTypeOK /\ SharedInv /\ TokenInv /\ AwaitInv /\ LoadInv /\ OwnInv
         /\ ClosedWindow /\ NotCutOff
-----------------------------------------------------------------------------
(* The packets *)

LEMMA PacketKinds ==
    ASSUME NEW p \in Packet
    PROVE  /\ p.id \in U16 /\ p.type \in {"publish", "pubrel"}
           /\ p.type = "publish" => p.op \in 0 .. MaxPublishes /\ p.qos \in {0} \cup QosLevels
           /\ \A id : p \in PubrelsOf(id) <=> p.id = id /\ p.type = "pubrel"
           /\ \A id, Q : p \in PacketsOf(id, Q)
                <=> p.id = id /\ (IF p.type = "pubrel" THEN 2 \in Q ELSE p.qos \in Q)
           /\ p \in LoadPackets <=> p.type = "pubrel" \/ p.qos # 0
<1>1. /\ p.id \in U16 /\ p.type \in {"publish", "pubrel"}
      /\ p.type = "publish" => p.op \in 0 .. MaxPublishes /\ p.qos \in {0} \cup QosLevels
  BY DEF Packet
<1>2. p.type = "publish" => p.qos \in {0, 1, 2}
  BY <1>1, QosAssumption
<1>3. p \in LoadPackets <=> p.type = "pubrel" \/ p.qos # 0
  BY <1>1, <1>2 DEF LoadPackets, QosOfPacket, Both
<1>4. QED BY <1>1, <1>3 DEF PubrelsOf, PacketsOf, QosOfPacket

LEMMA PublishPackets ==
    ASSUME NEW m \in Message
    PROVE  /\ PublishPacket(m) \in Packet
           /\ PublishPacket(m).type = "publish" /\ PublishPacket(m).id = m.id
           /\ PublishPacket(m).op = m.op /\ PublishPacket(m).qos = m.qos
           /\ m.qos \in Both /\ m.id \in U16 /\ m.op \in 1 .. MaxPublishes
<1>1. m.op \in 1 .. MaxPublishes /\ m.qos \in QosLevels /\ m.id \in U16
  BY DEF Message
<1>2. m.op \in 0 .. MaxPublishes
  BY <1>1
<1>3. QED BY <1>1, <1>2, QosAssumption DEF PublishPacket, Packet, Both

LEMMA PubrelPackets ==
    ASSUME NEW id \in U16, NEW known \in BOOLEAN
    PROVE  /\ PubrelPacket(id, known) \in Packet
           /\ PubrelPacket(id, known).type = "pubrel" /\ PubrelPacket(id, known).id = id
BY DEF PubrelPacket, Packet

\* The entry a publish gets.
Flying(m) == [op |-> m.op, qos |-> m.qos, id |-> m.id, state |-> FirstState(m.qos)]

LEMMA Entrance ==
    ASSUME NEW m \in Message
    PROVE  /\ Flying(m) \in InFlight
           /\ Flying(m).op = m.op /\ Flying(m).qos = m.qos /\ Flying(m).id = m.id
           /\ Flying(m).state = "waiting_puback" <=> m.qos = 1
           /\ \A id, Q : Flying(m) \in EntriesOf(id, Q) <=> m.id = id /\ m.qos \in Q
<1>1. m.op \in 1 .. MaxPublishes /\ m.qos \in QosLevels /\ m.id \in U16 /\ m.qos \in {1, 2}
  BY QosAssumption DEF Message
<1>2. Flying(m) \in InFlight
  BY <1>1 DEF Flying, InFlight, FirstState, States
<1>3. QED BY <1>1, <1>2 DEF Flying, FirstState, EntriesOf

LEMMA AckKinds ==
    ASSUME NEW p \in ServerPacket
    PROVE  /\ p.type = "connack" => /\ p.receiveMaximum \in ReceiveMaxima
                                    /\ p \notin LoadAcks
                                    /\ \A id, Q : p \notin AcksOf(id, Q)
                                    /\ \A id : p \notin PubrecsOf(id)
           /\ p.type # "connack" =>
                /\ p \in Acknowledgement /\ p.id \in U16 /\ p.op \in 0 .. MaxPublishes
                /\ p.type \in {"puback", "pubrec", "refused", "pubcomp"}
                /\ \A id, Q : p \in AcksOf(id, Q)
                     <=> p.id = id /\ (IF p.type = "puback" THEN 1 \in Q ELSE 2 \in Q)
                /\ \A id : p \in PubrecsOf(id) <=> p.id = id /\ p.type = "pubrec"
                /\ p \in LoadAcks <=> p.type \in {"puback", "pubrec"}
BY DEF ServerPacket, Connack, Acknowledgement, AcksOf, QosOfAck, PubrecsOf, LoadAcks

LEMMA DutyKinds ==
    ASSUME NEW x \in Exchange
    PROVE  /\ x.id \in U16 /\ x.op \in 0 .. MaxPublishes /\ x.stage \in Stages
           /\ \A id, Q : x \in DutiesOf(id, Q)
                <=> /\ x.id = id /\ x.stage # "await_rel"
                    /\ (IF x.stage = "ack_due" THEN 1 \in Q ELSE 2 \in Q)
           /\ \A id : x \in AwaitsOf(id) <=> x.id = id /\ x.stage = "await_rel"
           /\ x \in LoadDuties <=> x.stage # "await_rel"
           /\ \A stage \in Stages : [x EXCEPT !.stage = stage] \in Exchange
           /\ \A type \in {"puback", "pubrec", "refused", "pubcomp"} :
                /\ Ack(type, x) \in ServerPacket
                /\ Ack(type, x).type = type /\ Ack(type, x).id = x.id /\ Ack(type, x).op = x.op
BY DEF Exchange, Stages, DutiesOf, QosOfDuty, AwaitsOf, LoadDuties, Ack, ServerPacket, Acknowledgement
-----------------------------------------------------------------------------
(* Steps and types *)

\* A step of the session is a step of the publish flow with some server.
LEMMA SessionStep ==
    ASSUME SessionTypeOK, [SessionNext]_sessionVars
    PROVE  [Next]_vars
<1>1. CASE ClientReceive
  <2>1. toClient \in Seq(ServerPacket) /\ toClient # <<>>
    BY <1>1 DEF SessionTypeOK, ClientReceive
  <2>2. Head(toClient) \in ServerPacket
    BY <2>1, HeadTailProperties
  <2> DEFINE p == Head(toClient)
  <2>3. /\ p.type = "connack" => p.receiveMaximum \in ReceiveMaxima
        /\ p.type # "connack" => p.id \in U16
    BY <2>2, AckKinds
  <2> HIDE DEF p
  <2>4. \/ p.type = "connack" /\ HandleConnack(p.receiveMaximum)
        \/ p.type = "puback" /\ (HandlePuback(p.id) \/ HandleUnknownPuback(p.id))
        \/ p.type = "pubrec" /\ (\/ HandlePubrec(p.id) \/ HandlePubrecMismatch(p.id)
                                 \/ HandleUnknownPubrec(p.id))
        \/ p.type = "refused" /\ (HandlePubrecError(p.id) \/ HandleUnknownPubrec(p.id))
        \/ p.type = "pubcomp" /\ HandlePubcomp(p.id)
        \/ UNCHANGED vars
    BY <1>1 DEF ClientReceive, p
  <2>5. \/ \E rm \in ReceiveMaxima : HandleConnack(rm)
        \/ \E id \in U16 : Handle(id)
        \/ UNCHANGED vars
    BY <2>3, <2>4 DEF Handle
  <2>6. QED BY <2>5 DEF Next
<1>2. CASE User \/ Return \/ Disconnect
  BY <1>2 DEF Next, Disconnect
<1>3. CASE ServerReceive \/ ServerAnswer \/ UNCHANGED sessionVars
  BY <1>3 DEF ServerReceive, ServerAnswer, Next, sessionVars
<1>4. QED BY <1>1, <1>2, <1>3 DEF SessionNext

\* What comes to be in flight under one identifier is remembered.
LEMMA NoteSharedType ==
    ASSUME SessionTypeOK, TypeOK', NoteShared
    PROVE  shared' \subseteq 1 .. MaxPublishes
<1>1. inflight' \in Seq(InFlight) /\ DOMAIN inflight' = 1 .. Len(inflight')
  BY LenProperties DEF TypeOK
<1>2. \A i \in DOMAIN inflight' : inflight'[i].op \in 1 .. MaxPublishes
  <2>1. \A i \in DOMAIN inflight' : inflight'[i] \in InFlight
    BY <1>1, ElementOfSeq
  <2>2. QED BY <2>1 DEF InFlight
<1>3. QED BY <1>2 DEF NoteShared, SessionTypeOK

\* The steps, one by one.
ReceiveConnack(rm) == Head(toClient).type = "connack" /\ HandleConnack(rm)
ReceiveUnknown(p) ==
    p = Head(toClient) /\ p.type # "connack" /\ Unknown(p.id)
ReceivePuback(p) == p = Head(toClient) /\ p.type = "puback" /\ HandlePuback(p.id)
ReceivePubrec(p) == p = Head(toClient) /\ p.type = "pubrec" /\ HandlePubrec(p.id)
ReceiveMismatch(p) == p = Head(toClient) /\ p.type = "pubrec" /\ HandlePubrecMismatch(p.id)
ReceiveRefused(p) == p = Head(toClient) /\ p.type = "refused" /\ HandlePubrecError(p.id)
ReceivePubcomp(p) == p = Head(toClient) /\ p.type = "pubcomp" /\ HandlePubcomp(p.id)
Received == toClient # <<>> /\ toClient' = Tail(toClient) /\ UNCHANGED exchanges

LEMMA ClientReceives ==
    ASSUME SessionTypeOK, ClientReceive
    PROVE  /\ Received
           /\ \/ \E rm \in ReceiveMaxima : ReceiveConnack(rm)
              \/ \E p \in Acknowledgement :
                    \/ ReceiveUnknown(p) \/ ReceivePuback(p) \/ ReceivePubrec(p)
                    \/ ReceiveMismatch(p) \/ ReceiveRefused(p) \/ ReceivePubcomp(p)
<1>1. toClient \in Seq(ServerPacket) /\ toClient # <<>> /\ Received
  BY DEF SessionTypeOK, ClientReceive, Received
<1>2. Head(toClient) \in ServerPacket
  BY <1>1, HeadTailProperties
<1> DEFINE p == Head(toClient)
<1>3. /\ p.type = "connack" => p.receiveMaximum \in ReceiveMaxima
      /\ p.type # "connack" => p \in Acknowledgement
  BY <1>2, AckKinds
<1> HIDE DEF p
<1>4. \/ p.type = "connack" /\ HandleConnack(p.receiveMaximum)
      \/ p.type = "puback" /\ (HandlePuback(p.id) \/ HandleUnknownPuback(p.id))
      \/ p.type = "pubrec" /\ (\/ HandlePubrec(p.id) \/ HandlePubrecMismatch(p.id)
                               \/ HandleUnknownPubrec(p.id))
      \/ p.type = "refused" /\ (HandlePubrecError(p.id) \/ HandleUnknownPubrec(p.id))
      \/ p.type = "pubcomp" /\ (HandlePubcomp(p.id) \/ Unknown(p.id))
  BY DEF ClientReceive, p
<1>5. CASE p.type = "connack"
  <2>1. ReceiveConnack(p.receiveMaximum)
    BY <1>4, <1>5 DEF ReceiveConnack, p
  <2>2. QED BY <1>1, <1>3, <1>5, <2>1
<1>6. CASE p.type # "connack"
  <2>1. \/ Unknown(p.id)
        \/ p.type = "puback" /\ HandlePuback(p.id)
        \/ p.type = "pubrec" /\ HandlePubrec(p.id)
        \/ p.type = "pubrec" /\ HandlePubrecMismatch(p.id)
        \/ p.type = "refused" /\ HandlePubrecError(p.id)
        \/ p.type = "pubcomp" /\ HandlePubcomp(p.id)
    BY <1>4, <1>6 DEF HandleUnknownPuback, HandleUnknownPubrec
  <2>2. \/ ReceiveUnknown(p) \/ ReceivePuback(p) \/ ReceivePubrec(p)
        \/ ReceiveMismatch(p) \/ ReceiveRefused(p) \/ ReceivePubcomp(p)
    BY <1>6, <2>1 DEF ReceiveUnknown, ReceivePuback, ReceivePubrec, ReceiveMismatch,
          ReceiveRefused, ReceivePubcomp, p
  <2>3. QED BY <1>1, <1>3, <1>6, <2>2
<1>7. QED BY <1>5, <1>6

LEMMA SessionTypeStep ==
    ASSUME TypeOK, SessionTypeOK, [SessionNext]_sessionVars
    PROVE  TypeOK' /\ SessionTypeOK'
<1>1. TypeOK'
  BY SessionStep, TypeStep
<1>2. /\ toClient \in Seq(ServerPacket) /\ exchanges \in Seq(Exchange)
      /\ shared \subseteq 1 .. MaxPublishes
      /\ DOMAIN exchanges = 1 .. Len(exchanges) /\ Len(toClient) \in Nat
  BY LenProperties DEF SessionTypeOK
<1>3. \A i \in DOMAIN exchanges : exchanges[i] \in Exchange
  BY <1>2, ElementOfSeq
<1>4. \A i \in DOMAIN exchanges : \A stage \in Stages : Staged(i, stage) \in Seq(Exchange)
  <2> SUFFICES ASSUME NEW i \in DOMAIN exchanges, NEW stage \in Stages
               PROVE  Staged(i, stage) \in Seq(Exchange)
    OBVIOUS
  <2>1. [exchanges[i] EXCEPT !.stage = stage] \in Exchange
    BY <1>3, DutyKinds
  <2>2. Staged(i, stage) = [exchanges EXCEPT ![i] = [exchanges[i] EXCEPT !.stage = stage]]
    BY DEF Staged
  <2>3. QED BY <1>2, <2>1, <2>2, Moves
<1>5. \A i \in DOMAIN exchanges : RemoveAt(exchanges, i) \in Seq(Exchange)
  BY <1>2, Moves
<1>6. \A x \in Exchange : Append(exchanges, x) \in Seq(Exchange)
  BY <1>2, Moves
<1>7. ASSUME NEW type \in {"puback", "pubrec", "refused", "pubcomp"}, NEW i \in DOMAIN exchanges
      PROVE  Append(toClient, Ack(type, exchanges[i])) \in Seq(ServerPacket)
  BY <1>2, <1>3, DutyKinds, Moves
<1>8. CASE ClientReceive
  <2>1. toClient' \in Seq(ServerPacket)
    BY <1>2, <1>8, Moves DEF ClientReceive
  <2>2. QED BY <1>1, <1>2, <1>8, <2>1, NoteSharedType DEF ClientReceive, SessionTypeOK
<1>9. CASE (User \/ Return) /\ NoteShared /\ UNCHANGED <<toClient, exchanges>>
  BY <1>1, <1>2, <1>9, NoteSharedType DEF SessionTypeOK
<1>10. CASE ServerReceive
  <2>1. Head(wire) \in Packet
    BY <1>10, Moves DEF TypeOK, ServerReceive, Transmit
  <2> DEFINE p == Head(wire)
  <2>2. /\ p.id \in U16
        /\ p.type = "publish" => p.op \in 0 .. MaxPublishes
    BY <2>1, PacketKinds
  <2> HIDE DEF p
  <2>3. exchanges' \in Seq(Exchange)
    <3>1. \/ exchanges' = exchanges
          \/ p.type = "publish" /\ exchanges' \in {Opened(p, "ack_due"), Opened(p, "rec_due")}
          \/ exchanges' = Opened([op |-> 0, id |-> p.id], "comp_due")
          \/ \E i \in DOMAIN exchanges : exchanges' \in {Staged(i, "rec_due"), Staged(i, "comp_due")}
      BY <1>10 DEF ServerReceive, AwaitingRel, p
    <3>2. \A stage \in Stages : p.type = "publish" => [op |-> p.op, id |-> p.id, stage |-> stage] \in Exchange
      BY <2>2 DEF Exchange
    <3>3. [op |-> 0, id |-> p.id, stage |-> "comp_due"] \in Exchange
      BY <2>2, BoundsAssumption DEF Exchange, Stages
    <3>4. {"ack_due", "rec_due", "comp_due"} \subseteq Stages
      BY DEF Stages
    <3>5. p.type = "publish" => Opened(p, "ack_due") \in Seq(Exchange) /\ Opened(p, "rec_due") \in Seq(Exchange)
      BY <1>6, <3>2, <3>4 DEF Opened
    <3>6. Opened([op |-> 0, id |-> p.id], "comp_due") \in Seq(Exchange)
      BY <1>6, <3>3 DEF Opened
    <3>7. QED BY <1>2, <1>4, <3>1, <3>4, <3>5, <3>6
  <2>4. QED BY <1>1, <1>2, <1>10, <2>3 DEF ServerReceive, SessionTypeOK
<1>11. CASE ServerAnswer
  <2>1. PICK i \in DOMAIN exchanges, type \in {"puback", "pubrec", "refused", "pubcomp"} :
          Answer(i, type) /\ (exchanges' = Staged(i, "await_rel") \/ Over(i))
    BY <1>11 DEF ServerAnswer, SendPuback, SendPubrec, SendPubcomp
  <2>2. "await_rel" \in Stages
    BY DEF Stages
  <2>3. QED BY <1>1, <1>2, <1>4, <1>5, <1>7, <1>11, <2>1, <2>2
        DEF Answer, Over, ServerAnswer, SessionTypeOK
<1>12. CASE Disconnect
  <2>1. \A n \in 0 .. Len(toClient) : SubSeq(toClient, 1, n) \in Seq(ServerPacket)
    BY <1>2, ToSetProperties
  <2>2. QED BY <1>1, <1>2, <1>12, <2>1 DEF Disconnect, SessionTypeOK
<1>13. CASE UNCHANGED sessionVars
  BY <1>1, <1>2, <1>13 DEF sessionVars, SessionTypeOK
<1>14. QED BY <1>8, <1>9, <1>10, <1>11, <1>12, <1>13 DEF SessionNext
-----------------------------------------------------------------------------
(* What the steps do to the tokens and to the publishes in flight *)

\* No publish is told its fate.
NoFate ==
    /\ \A n \in DOMAIN outcome : outcome'[n] = outcome[n]
    /\ \A n \in DOMAIN outcome' : n \in DOMAIN outcome \/ outcome'[n] = "pending"

Fewer(s, t) ==
    /\ \A T : Occurrences(t, T) <= Occurrences(s, T)
    /\ ToSet(t) \subseteq ToSet(s)

\* Neither tokens that count nor publishes in flight are touched.
Steady == (open' => open /\ Closing' = Closing) /\ (Healthy' => Healthy)
Rests ==
    /\ UNCHANGED <<inflight, exchanges>>
    /\ \/ toClient' = toClient
       \/ \E p \in Connack : Lost(toClient, toClient', p)
       \/ ~open' /\ Fewer(toClient, toClient')
    /\ \/ wire' = wire
       \/ \E p \in Packet : p.type = "publish" /\ p.qos = 0 /\ Gained(wire, wire', p)
    /\ Room' >= Room
    /\ Steady /\ NoFate

\* A publish joins those in flight, and is sent if the socket is open.
Goes(m) ==
    /\ Gained(inflight, inflight', Flying(m)) /\ \A f \in ToSet(inflight) : f.op # m.op
    /\ IF open' THEN Gained(wire, wire', PublishPacket(m)) ELSE wire' = wire
    /\ UNCHANGED <<toClient, exchanges>>
    /\ Room' >= Room + 1
    /\ Steady /\ NoFate

\* The acknowledgement p finishes the publish e.
Finishes(p, e) ==
    /\ toClient # <<>> /\ p = Head(toClient) /\ Lost(toClient, toClient', p)
    /\ e \in ToSet(inflight) /\ e.id = p.id /\ Lost(inflight, inflight', e)
    /\ UNCHANGED <<wire, exchanges, open>> /\ handler = "none"
    /\ \E o \in Outcomes \ {"pending"} :
        /\ outcome' = [outcome EXCEPT ![e.op] = o]
        /\ \/ p.type = "puback" /\ e.state = "waiting_puback" /\ o # "done"
              /\ handler' = "puback" /\ Room' = Room - 1
           \/ p.type = "puback" /\ e.state # "waiting_puback" /\ handler' = "puback_mismatch"
              /\ Room' = Room - 1
           \/ p.type = "pubrec" /\ e.state = "waiting_puback" /\ handler' = "pubrec_mismatch"
              /\ Room' = Room - 1
           \/ p.type \in {"refused", "pubcomp"} /\ o # "done" /\ handler' = "none"
              /\ Room' = Room

\* A PUBREC has the publish e released.
Releases(p, e) ==
    /\ toClient # <<>> /\ p = Head(toClient) /\ p.type = "pubrec" /\ Lost(toClient, toClient', p)
    /\ e.id = p.id /\ e.state # "waiting_puback"
    /\ Replaced(inflight, inflight', e, [e EXCEPT !.state = "waiting_pubcomp"])
    /\ IF open THEN Gained(wire, wire', PubrelPacket(p.id, TRUE)) ELSE wire' = wire
    /\ UNCHANGED <<exchanges, open, handler, Room>> /\ handler = "none" /\ NoFate

\* The server receives the packet p.
Arrives(p) ==
    /\ open /\ Lost(wire, wire', p)
    /\ UNCHANGED <<connected, open, maxQuota, quota, inflight, handler, outcome, early, toClient>>
    /\ \/ p.type = "publish" /\ p.qos = 0 /\ UNCHANGED exchanges
       \/ p.type = "publish" /\ p.qos = 1
          /\ Gained(exchanges, exchanges', [op |-> p.op, id |-> p.id, stage |-> "ack_due"])
       \/ p.type = "publish" /\ p.qos = 2 /\ (\A x \in ToSet(exchanges) : x \notin AwaitsOf(p.id))
          /\ Gained(exchanges, exchanges', [op |-> p.op, id |-> p.id, stage |-> "rec_due"])
       \/ p.type = "pubrel" /\ (\A x \in ToSet(exchanges) : x \notin AwaitsOf(p.id))
          /\ Gained(exchanges, exchanges', [op |-> 0, id |-> p.id, stage |-> "comp_due"])
       \/ \E x \in AwaitsOf(p.id) :
          \/ p.type = "publish" /\ p.qos = 2
             /\ Replaced(exchanges, exchanges', x, [x EXCEPT !.stage = "rec_due"])
          \/ p.type = "pubrel"
             /\ Replaced(exchanges, exchanges', x, [x EXCEPT !.stage = "comp_due"])

\* The server does its duty x.
Answers(x) ==
    /\ open
    /\ UNCHANGED <<connected, open, maxQuota, quota, inflight, handler, outcome, early, wire>>
    /\ \/ x.stage = "ack_due" /\ Gained(toClient, toClient', Ack("puback", x))
          /\ Lost(exchanges, exchanges', x)
       \/ x.stage = "rec_due" /\ Gained(toClient, toClient', Ack("pubrec", x))
          /\ Replaced(exchanges, exchanges', x, [x EXCEPT !.stage = "await_rel"])
       \/ x.stage = "rec_due" /\ Gained(toClient, toClient', Ack("refused", x))
          /\ Lost(exchanges, exchanges', x)
       \/ x.stage = "comp_due" /\ Gained(toClient, toClient', Ack("pubcomp", x))
          /\ Lost(exchanges, exchanges', x)

\* How much room there is, by what the client is doing.
LEMMA RoomSums ==
    /\ \A e \in Nat : (e + 0) - 0 = e
    /\ \A e, m, q \in Nat : \A r, k \in {0, 1} : e + m - (q + r + k) \in Int
OBVIOUS
LEMMA GrownRoom == \A e, f \in Nat : f = e + (f - e)
OBVIOUS
LEMMA PlainRoom == \A e, m, q \in Nat : e + m - (q + 0 + 0) = e + m - q
OBVIOUS
LEMMA NewRoom == \A e, m \in Nat : e + m - (m + 0 + 0) = e
OBVIOUS
LEMMA ReturnedRoom ==
    \A e, m, q, r \in Nat : r <= q + 1 => e + m - r >= e + m - (q + 1 + 0)
OBVIOUS
LEMMA TakenRoom ==
    /\ \A e, m, q \in Nat : e + m - (q + 1 + 0) = (e + m - (q + 0 + 0)) - 1
    /\ \A e, m, q \in Nat : e + m - (q + 0 + 1) = (e + m - (q + 0 + 0)) - 1
OBVIOUS

LEMMA Rooms ==
    ASSUME TypeOK, TypeOK'
    PROVE  /\ Room \in Int /\ Room' \in Int
           /\ connected => Room = early + maxQuota - (quota + Returning + Closing)
           /\ ~connected => Room = early
           /\ connected' => Room' = early' + maxQuota' - (quota' + Returning' + Closing')
           /\ ~connected' => Room' = early'
           /\ Closing \in {0, 1} /\ Returning \in {0, 1} /\ Closing' \in {0, 1} /\ Returning' \in {0, 1}
<1>1. /\ early \in Nat /\ maxQuota \in Nat /\ quota \in Nat /\ connected \in BOOLEAN
      /\ early' \in Nat /\ maxQuota' \in Nat /\ quota' \in Nat /\ connected' \in BOOLEAN
  BY U16MaxAssumption DEF TypeOK, U16
<1>2. Closing \in {0, 1} /\ Returning \in {0, 1} /\ Closing' \in {0, 1} /\ Returning' \in {0, 1}
  BY DEF Closing, Returning
<1>3. /\ connected => Room = early + maxQuota - (quota + Returning + Closing)
      /\ ~connected => Room = (early + 0) - 0
      /\ connected' => Room' = early' + maxQuota' - (quota' + Returning' + Closing')
      /\ ~connected' => Room' = (early' + 0) - 0
  <2>1. Room = (early + IF connected THEN maxQuota ELSE 0)
               - IF connected THEN quota + Returning + Closing ELSE 0
    BY DEF Room, Granted
  <2>2. Room' = (early' + IF connected' THEN maxQuota' ELSE 0)
                - IF connected' THEN quota' + Returning' + Closing' ELSE 0
    BY DEF Room, Granted
  <2>3. connected => Room = early + maxQuota - (quota + Returning + Closing)
    BY ONLY <1>1, <1>2, <2>1
  <2>4. ~connected => Room = (early + 0) - 0
    BY ONLY <1>1, <1>2, <2>1
  <2>5. ASSUME connected'
        PROVE  Room' = early' + maxQuota' - (quota' + Returning' + Closing')
    BY ONLY <1>1, <1>2, <2>2, <2>5
  <2>6. ASSUME ~connected'
        PROVE  Room' = (early' + 0) - 0
    BY ONLY <2>2, <2>6
  <2>7. QED BY ONLY <2>3, <2>4, <2>5, <2>6
<1>4. /\ ~connected => Room = early
      /\ ~connected' => Room' = early'
  BY ONLY <1>1, <1>3, RoomSums
<1>5. Room \in Int
  BY ONLY <1>1, <1>2, <1>3, <1>4, RoomSums
<1>6. Room' \in Int
  <2>1. CASE connected'
    BY ONLY <1>1, <1>2, <1>3, <2>1, RoomSums
  <2>2. CASE ~connected'
    BY <1>1, <1>4, <2>2
  <2>3. QED BY <2>1, <2>2
<1>7. QED BY <1>2, <1>3, <1>4, <1>5, <1>6

\* What becomes of the room while the handler is the same.
LEMMA RoomFrame ==
    ASSUME TypeOK, TypeOK', UNCHANGED <<connected, maxQuota, handler>>
    PROVE  /\ connected => Room' = Room + (early' - early) - (quota' - quota)
           /\ ~connected => Room' = Room + (early' - early)
<1>1. /\ early \in Nat /\ maxQuota \in Nat /\ quota \in Nat
      /\ early' \in Nat /\ quota' \in Nat
  BY U16MaxAssumption DEF TypeOK, U16
<1>2. Returning' = Returning /\ Closing' = Closing
  BY DEF Returning, Closing
<1>3. ASSUME connected PROVE Room' = Room + (early' - early) - (quota' - quota)
  <2>1. /\ Room = early + maxQuota - (quota + Returning + Closing)
        /\ Returning \in {0, 1} /\ Closing \in {0, 1}
    BY ONLY <1>3, TypeOK, TypeOK', Rooms
  <2>2. connected'
    BY <1>3
  <2>3. Room' = early' + maxQuota' - (quota' + Returning' + Closing')
    BY ONLY <2>2, TypeOK, TypeOK', Rooms
  <2>4. Room' = early' + maxQuota - (quota' + Returning + Closing)
    BY <1>2, <2>3
  <2>5. QED BY ONLY <1>1, <2>1, <2>4
<1>4. ASSUME ~connected PROVE Room' = Room + (early' - early)
  <2>1. Room = early /\ Room' = early'
    <3>1. ~connected'
      BY <1>4
    <3>2. QED BY ONLY <1>4, <3>1, TypeOK, TypeOK', Rooms
  <2>2. early' = early + (early' - early)
    BY ONLY <1>1, GrownRoom
  <2>3. QED BY ONLY <2>1, <2>2
<1>5. QED BY <1>3, <1>4

\* No receiver is told anything.
LEMMA SameFates ==
    ASSUME TypeOK, outcome' = outcome \/ outcome' = Append(outcome, "pending")
    PROVE  NoFate
<1>1. CASE outcome' = outcome
  BY <1>1 DEF NoFate
<1>2. CASE outcome' = Append(outcome, "pending")
  <2>1. "pending" \in Outcomes /\ outcome \in Seq(Outcomes) /\ DOMAIN outcome = 1 .. Len(outcome)
    BY LenProperties DEF TypeOK, Outcomes
  <2>2. /\ DOMAIN outcome' = 1 .. Len(outcome')
        /\ \A n \in 1 .. Len(outcome') :
             \/ n \in 1 .. Len(outcome) /\ outcome'[n] = outcome[n]
             \/ outcome'[n] = "pending"
    <3>1. Append(outcome, "pending") \in Seq(Outcomes)
      BY <2>1, AppendProperties
    <3>2. \A n \in 1 .. Len(outcome') :
             \/ n \in 1 .. Len(outcome) /\ outcome'[n] = outcome[n]
             \/ n = Len(outcome) + 1 /\ outcome'[n] = "pending"
      BY <1>2, <2>1, Appended
    <3>3. QED BY <1>2, <3>1, <3>2, LenProperties
  <2>3. \A n \in 1 .. Len(outcome) : outcome'[n] = outcome[n]
    BY <1>2, <2>1, AppendProperties
  <2>4. QED BY <2>1, <2>2, <2>3 DEF NoFate
<1>3. QED BY <1>1, <1>2

LEMMA StartMoves ==
    ASSUME TypeOK, NEW m \in Message, NEW q \in U16, q > 0, StartPublish(m, q)
    PROVE  /\ quota' = q - 1
           /\ Gained(inflight, inflight', Flying(m))
           /\ IF open' THEN Gained(wire, wire', PublishPacket(m)) ELSE wire' = wire
<1>1. quota' = q - 1
  BY DEF StartPublish, Decrement, U16
<1>2. Gained(inflight, inflight', Flying(m))
  <2>1. Flying(m) \in InFlight /\ inflight' = Append(inflight, Flying(m))
    BY Entrance DEF StartPublish, Flying
  <2>2. QED BY <2>1, Moves DEF TypeOK
<1>3. IF open' THEN Gained(wire, wire', PublishPacket(m)) ELSE wire' = wire
  <2>1. Gained(wire, Append(wire, PublishPacket(m)), PublishPacket(m))
    BY PublishPackets, Moves DEF TypeOK
  <2>2. QED BY <2>1 DEF StartPublish, SendMessage
<1>4. QED BY <1>1, <1>2, <1>3

LEMMA MaybeSendMoves ==
    ASSUME IInv, MaybeSendQueuedPublish
    PROVE  \/ UNCHANGED <<inflight, wire>> /\ quota' <= quota + 1
           \/ \E m \in Message :
                /\ quota' = quota
                /\ \A f \in ToSet(inflight) : f.op # m.op
                /\ Gained(inflight, inflight', Flying(m))
                /\ IF open' THEN Gained(wire, wire', PublishPacket(m)) ELSE wire' = wire
<1>1. TypeOK /\ quota \in Nat /\ maxQuota \in Nat /\ maxQuota <= U16Max
  BY Lengths DEF IInv
<1>2. quota < maxQuota => Increment(quota) = quota + 1 /\ quota + 1 \in U16
  BY <1>1, U16MaxAssumption DEF Increment, U16
<1>3. CASE quota < maxQuota /\ queue # <<>> /\ StartPublish(Head(queue), Increment(quota))
  <2>1. Head(queue) \in Message
    BY <1>1, <1>3, Moves DEF TypeOK
  <2>2. quota' = (quota + 1) - 1
    BY <1>1, <1>2, <1>3, <2>1, StartMoves
  <2>3. \A f \in ToSet(inflight) : f.op # Head(queue).op
    <3>1. /\ inflight \in Seq(InFlight) /\ Len(sent) \in Nat /\ Len(queue) \in Nat /\ Len(queue) # 0
      BY <1>1, <1>3, Lengths DEF TypeOK
    <3>2. \A i \in 1 .. Len(inflight) : inflight[i].op \in 1 .. Len(sent)
      BY DEF IInv, HeldInv
    <3>3. Head(queue).op = Len(sent) + 1
      BY <3>1 DEF IInv, OrderInv
    <3>4. \A i \in 1 .. Len(inflight) : inflight[i].op # Head(queue).op
      BY <3>1, <3>2, <3>3
    <3>5. QED BY <3>1, <3>4, ToSetMembers
  <2>4. QED BY <1>1, <1>2, <1>3, <2>1, <2>2, <2>3, StartMoves
<1>4. QED BY <1>1, <1>2, <1>3 DEF MaybeSendQueuedPublish

\* A user's step: a publish is sent, or nothing that counts happens.
LEMMA UserEvents ==
    ASSUME IInv, TypeOK', User, UNCHANGED <<toClient, exchanges>>
    PROVE  Rests \/ \E m \in Message : Goes(m)
<1>1. TypeOK /\ Room \in Int
  BY Rooms DEF IInv
<1>2. UNCHANGED <<connected, maxQuota, handler, open>>
  BY DEF User, PublishQos0, TakeRequestIdentifier, Publish
<1>3. Steady
  BY <1>2 DEF Steady, Closing, Healthy
<1>4. NoFate
  <2>1. outcome' = outcome \/ outcome' = Append(outcome, "pending")
    BY DEF User, PublishQos0, TakeRequestIdentifier, Publish
  <2>2. QED BY <1>1, <2>1, SameFates
<1>5. CASE PublishQos0 \/ TakeRequestIdentifier
  <2>1. UNCHANGED <<quota, early, inflight>>
    BY <1>5 DEF PublishQos0, TakeRequestIdentifier
  <2>2. Room' = Room
    BY <1>2, <2>1 DEF Room, Granted, Returning, Closing
  <2>3. wire' = wire \/ \E p \in Packet : p.type = "publish" /\ p.qos = 0 /\ Gained(wire, wire', p)
    <3> DEFINE p == PublishPacket([op |-> 0, qos |-> 0, id |-> 0])
    <3>1. p \in Packet /\ p.type = "publish" /\ p.qos = 0
      BY U16MaxAssumption, BoundsAssumption DEF PublishPacket, Packet, U16
    <3>2. wire' = wire \/ wire' = Append(wire, p)
      BY <1>5 DEF PublishQos0, TakeRequestIdentifier, SendMessage
    <3> HIDE DEF p
    <3>3. Gained(wire, Append(wire, p), p)
      BY <1>1, <3>1, Moves DEF TypeOK
    <3>4. QED BY ONLY <3>1, <3>2, <3>3
  <2>4. QED BY <1>1, <1>3, <1>4, <2>1, <2>2, <2>3 DEF Rests
<1>6. ASSUME NEW qos \in QosLevels, Publish(qos)
      PROVE  Rests \/ \E m \in Message : Goes(m)
  <2> DEFINE m == [op |-> Len(outcome) + 1, qos |-> qos, id |-> nextId]
  <2>1. /\ quota \in Nat /\ quota' \in Nat /\ early \in Nat /\ early' \in Nat
        /\ early' = IF connected THEN early ELSE early + 1
    BY <1>1, <1>6, U16MaxAssumption DEF TypeOK, U16, Publish
  <2>2. CASE UNCHANGED <<quota, inflight, wire>>
    <3>1. Room' >= Room
      BY <1>1, <1>2, <2>1, <2>2, RoomFrame
    <3>2. QED BY <1>3, <1>4, <2>2, <3>1 DEF Rests
  <2>3. CASE quota > 0 /\ StartPublish(m, quota)
    <3>1. m \in Message
      <4>1. Len(outcome) \in Nat /\ Len(outcome) < MaxPublishes /\ nextId \in 1 .. U16Max
        BY <1>1, <1>6, Lengths DEF Publish, TypeOK
      <4>2. Len(outcome) + 1 \in 1 .. MaxPublishes /\ nextId \in U16
        BY <4>1, BoundsAssumption, U16MaxAssumption DEF U16
      <4>3. QED BY <4>2 DEF Message
    <3>2. m.op = Len(outcome) + 1
      OBVIOUS
    <3> HIDE DEF m
    <3>3. /\ quota' = quota - 1
          /\ Gained(inflight, inflight', Flying(m))
          /\ IF open' THEN Gained(wire, wire', PublishPacket(m)) ELSE wire' = wire
      BY <1>1, <2>3, <3>1, StartMoves DEF TypeOK
    <3>4. Room' >= Room + 1
      <4>1. CASE connected
        BY <1>1, <1>2, <2>1, <3>3, <4>1, RoomFrame
      <4>2. CASE ~connected
        BY <1>1, <1>2, <2>1, <3>3, <4>2, RoomFrame
      <4>3. QED BY <4>1, <4>2
    <3>5. \A f \in ToSet(inflight) : f.op # m.op
      <4>1. inflight \in Seq(InFlight) /\ Len(sent) \in Nat /\ Len(queue) \in Nat /\ Len(outcome) \in Nat
        BY <1>1, Lengths DEF TypeOK
      <4>2. \A i \in 1 .. Len(inflight) : inflight[i].op \in 1 .. Len(sent)
        BY DEF IInv, HeldInv
      <4>3. Len(sent) + Len(queue) = Len(outcome)
        BY DEF IInv, OrderInv
      <4>4. \A i \in 1 .. Len(inflight) : inflight[i].op # m.op
        BY <3>2, <4>1, <4>2, <4>3
      <4>5. QED BY <4>1, <4>4, ToSetMembers
    <3>6. Goes(m)
      BY <1>3, <1>4, <3>3, <3>4, <3>5 DEF Goes
    <3>7. QED BY <3>1, <3>6
  <2>4. QED BY <1>6, <2>2, <2>3 DEF Publish
<1>7. QED BY <1>5, <1>6 DEF User

\* The rest of a handler: a queued publish may be sent.
LEMMA ReturnEvents ==
    ASSUME IInv, TypeOK', Return, UNCHANGED <<toClient, exchanges>>
    PROVE  Rests \/ \E m \in Message : Goes(m)
<1>1. /\ TypeOK /\ Room \in Int /\ Room' \in Int
      /\ quota \in Nat /\ quota' \in Nat /\ early \in Nat /\ maxQuota \in Nat
  BY Rooms, U16MaxAssumption DEF IInv, TypeOK, U16
<1>2. /\ UNCHANGED <<connected, maxQuota, early, outcome>> /\ handler # "none" /\ handler' = "none"
      /\ connected
  <2>1. UNCHANGED <<connected, maxQuota, early, outcome>> /\ handler # "none" /\ handler' = "none"
    BY DEF Return, PubackReturn, PubrecReturn, history
  <2>2. QED BY <2>1 DEF IInv, EarlyInv
<1>3. NoFate
  BY <1>1, <1>2, SameFates
<1>4. Returning' = 0 /\ Closing' = 0
  BY <1>2 DEF Returning, Closing
<1>5. /\ Room = early + maxQuota - (quota + Returning + Closing)
      /\ Room' = early + maxQuota - quota'
  <2>1. connected'
    BY <1>2
  <2>2. /\ Room = early + maxQuota - (quota + Returning + Closing)
        /\ Room' = early' + maxQuota' - (quota' + Returning' + Closing')
    BY ONLY <1>1, <1>2, <2>1, TypeOK', Rooms
  <2>3. Room' = early + maxQuota - (quota' + 0 + 0)
    BY <1>2, <1>4, <2>2
  <2>4. QED BY ONLY <1>1, <2>2, <2>3, PlainRoom
<1>6. CASE PubrecReturn
  <2>1. Returning = 0 /\ Closing = 1 /\ UNCHANGED <<quota, inflight, wire>> /\ ~open'
    BY <1>6 DEF PubrecReturn, Returning, Closing
  <2>2. Room' >= Room
    BY ONLY <1>1, <1>5, <2>1
  <2>3. Steady
    BY <2>1 DEF Steady, Healthy
  <2>4. QED BY <1>3, <2>1, <2>2, <2>3 DEF Rests
<1>7. CASE PubackReturn
  <2>1. Returning = 1 /\ Closing = 0 /\ MaybeSendQueuedPublish
    BY <1>7 DEF PubackReturn, Returning, Closing
  <2>2. Steady
    BY <1>4, <1>7, <2>1 DEF Steady, Healthy, PubackReturn
  <2>3. CASE UNCHANGED <<inflight, wire>> /\ quota' <= quota + 1
    <3>1. Room = early + maxQuota - (quota + 1 + 0)
      BY <1>5, <2>1
    <3>2. Room' >= Room
      BY ONLY <1>1, <1>5, <2>3, <3>1, ReturnedRoom
    <3>3. QED BY <1>3, <2>2, <2>3, <3>2 DEF Rests
  <2>4. ASSUME NEW m \in Message, quota' = quota, Gained(inflight, inflight', Flying(m)),
               IF open' THEN Gained(wire, wire', PublishPacket(m)) ELSE wire' = wire,
               \A f \in ToSet(inflight) : f.op # m.op
        PROVE  Goes(m)
    <3>1. Room' >= Room + 1
      BY ONLY <1>1, <1>5, <2>1, <2>4
    <3>2. QED BY <1>3, <2>2, <2>4, <3>1 DEF Goes
  <2>5. QED BY <2>1, <2>3, <2>4, MaybeSendMoves
<1>8. QED BY <1>6, <1>7 DEF Return

\* A handler that calls a receiver takes up room until it goes on.
LEMMA HandlerRoom ==
    ASSUME TypeOK, TypeOK', UNCHANGED <<connected, maxQuota, quota, early>>,
           connected, handler = "none"
    PROVE  /\ handler' \in {"puback", "puback_mismatch", "pubrec_mismatch"} => Room' = Room - 1
           /\ handler' = "none" => Room' = Room
<1>1. /\ early \in Nat /\ maxQuota \in Nat /\ quota \in Nat
      /\ Returning = 0 /\ Closing = 0 /\ connected'
  BY U16MaxAssumption DEF TypeOK, U16, Returning, Closing
<1>2. /\ Room = early + maxQuota - (quota + Returning + Closing)
      /\ Room' = early' + maxQuota' - (quota' + Returning' + Closing')
  BY ONLY <1>1, connected, TypeOK, TypeOK', Rooms
<1>3. Room = early + maxQuota - (quota + 0 + 0)
  BY <1>1, <1>2
<1>4. Room' = early + maxQuota - (quota + Returning' + Closing')
  BY <1>2
<1>5. CASE handler' \in {"puback", "puback_mismatch"}
  <2>1. Returning' = 1 /\ Closing' = 0
    BY <1>5 DEF Returning, Closing
  <2>2. Room' = early + maxQuota - (quota + 1 + 0)
    BY <1>4, <2>1
  <2>3. Room' = Room - 1
    BY ONLY <1>1, <1>3, <2>2, TakenRoom
  <2>4. QED BY <1>5, <2>3
<1>6. CASE handler' = "pubrec_mismatch"
  <2>1. Returning' = 0 /\ Closing' = 1
    BY <1>6 DEF Returning, Closing
  <2>2. Room' = early + maxQuota - (quota + 0 + 1)
    BY <1>4, <2>1
  <2>3. Room' = Room - 1
    BY ONLY <1>1, <1>3, <2>2, TakenRoom
  <2>4. QED BY <1>6, <2>3
<1>7. CASE handler' = "none"
  <2>1. Returning' = 0 /\ Closing' = 0
    BY <1>7 DEF Returning, Closing
  <2>2. Room' = Room
    BY <1>3, <1>4, <2>1
  <2>3. QED BY <1>7, <2>2
<1>8. QED BY <1>5, <1>6, <1>7

\* A token has a publish it is about.
LEMMA TokenFor ==
    ASSUME TypeOK, SessionTypeOK, NEW id \in U16, NEW Q,
           Tokens(id, Q) <= Entries(id, Q),
           \/ \E p \in ToSet(wire) : p \in PacketsOf(id, Q)
           \/ \E x \in ToSet(exchanges) : x \in DutiesOf(id, Q)
           \/ \E p \in ToSet(toClient) : p \in AcksOf(id, Q)
    PROVE  \E e \in ToSet(inflight) : e \in EntriesOf(id, Q)
<1>1. /\ wire \in Seq(Packet) /\ exchanges \in Seq(Exchange)
      /\ toClient \in Seq(ServerPacket) /\ inflight \in Seq(InFlight)
  BY DEF TypeOK, SessionTypeOK
<1> DEFINE a == Occurrences(wire, PacketsOf(id, Q))
           b == Occurrences(exchanges, DutiesOf(id, Q))
           c == Occurrences(toClient, AcksOf(id, Q))
           d == Occurrences(inflight, EntriesOf(id, Q))
<1>2. a \in Nat /\ b \in Nat /\ c \in Nat /\ d \in Nat
  BY <1>1, OccurrencesMember
<1>3. a # 0 \/ b # 0 \/ c # 0
  BY <1>1, OccurrencesMember
<1>4. a + b + c <= d
  BY DEF Tokens, Entries
<1>5. d # 0
  <2> HIDE DEF a, b, c, d
  <2>1. QED BY <1>2, <1>3, <1>4
<1>6. QED BY <1>1, <1>5, OccurrencesMember

\* What the server acknowledges is in flight; in a healthy session the
\* acknowledgements for QoS 2 are for publishes with QoS 2.
LEMMA KnownAck ==
    ASSUME TypeOK, SessionTypeOK, TokenInv, NEW p \in Acknowledgement, p \in ToSet(toClient)
    PROVE  /\ \E e \in ToSet(inflight) : e.id = p.id
           /\ Healthy /\ p.type # "puback" => \E e \in ToSet(inflight) : e \in EntriesOf(p.id, {2})
<1>1. p \in ServerPacket /\ p.type # "connack"
  BY DEF ServerPacket, Acknowledgement
<1>2. p.id \in U16 /\ p \in AcksOf(p.id, Both) /\ (p.type # "puback" => p \in AcksOf(p.id, {2}))
  BY <1>1, AckKinds DEF Both
<1>3. \E e \in ToSet(inflight) : e \in EntriesOf(p.id, Both)
  BY <1>2, TokenFor DEF TokenInv
<1>4. ASSUME Healthy, p.type # "puback"
      PROVE  \E e \in ToSet(inflight) : e \in EntriesOf(p.id, {2})
  BY <1>2, <1>4, TokenFor DEF TokenInv
<1>5. QED BY <1>3, <1>4 DEF EntriesOf

\* Telling a receiver its fate takes its publish out of those in flight.
LEMMA FinishMoves ==
    ASSUME TypeOK, NEW p \in Acknowledgement, NEW i \in DOMAIN inflight, NEW o,
           IsFirst(i, p.id), Finish(i, o)
    PROVE  /\ inflight[i] \in InFlight /\ inflight[i] \in ToSet(inflight)
           /\ inflight[i].id = p.id /\ Lost(inflight, inflight', inflight[i])
           /\ outcome' = [outcome EXCEPT ![inflight[i].op] = o]
<1>1. inflight \in Seq(InFlight) /\ i \in 1 .. Len(inflight)
  BY LenProperties DEF TypeOK
<1>2. inflight[i] \in InFlight /\ inflight[i] \in ToSet(inflight)
  BY <1>1, ElementOfSeq, ToSetMembers
<1>3. Lost(inflight, inflight', inflight[i])
  BY <1>1, Moves DEF Finish
<1>4. QED BY <1>2, <1>3 DEF IsFirst, Finish

\* A step of the client on a packet from the server.
LEMMA ReceiveEvents ==
    ASSUME IInv, TypeOK', SessionTypeOK, TokenInv, ClientReceive
    PROVE  \/ Rests
           \/ \E p \in Acknowledgement, e \in InFlight : Finishes(p, e)
           \/ \E p \in Acknowledgement, e \in InFlight : Releases(p, e)
<1>1. /\ TypeOK /\ toClient \in Seq(ServerPacket) /\ toClient # <<>> /\ UNCHANGED exchanges
      /\ inflight \in Seq(InFlight)
  BY ClientReceives DEF IInv, TypeOK, SessionTypeOK, Received
<1>2. /\ Lost(toClient, toClient', Head(toClient))
      /\ Head(toClient) \in ServerPacket /\ Head(toClient) \in ToSet(toClient)
  <2>1. toClient' = Tail(toClient)
    BY ClientReceives DEF Received
  <2>2. QED BY <1>1, <2>1, Moves DEF Lost
<1>3. ASSUME NEW rm \in ReceiveMaxima, ReceiveConnack(rm) PROVE Rests
  <2>1. /\ UNCHANGED <<open, inflight, handler, wire, early, outcome>>
        /\ maxQuota' = rm /\ quota' = rm /\ ~connected /\ connected'
    BY <1>3 DEF ReceiveConnack, HandleConnack, history
  <2>2. Head(toClient) \in Connack
    BY <1>2, <1>3 DEF ReceiveConnack, ServerPacket, Acknowledgement
  <2>3. handler = "none" /\ rm \in Nat /\ early \in Nat
    BY <1>1, <2>1, QuotaAssumption DEF IInv, EarlyInv, TypeOK
  <2>4. Returning' = 0 /\ Closing' = 0 /\ Closing = 0
    BY <2>1, <2>3 DEF Returning, Closing
  <2>5. Room = early /\ Room' = early' + maxQuota' - (quota' + Returning' + Closing') /\ Room \in Int
    BY ONLY <1>1, <2>1, TypeOK', Rooms
  <2>6. Room' = early + rm - (rm + 0 + 0)
    BY <2>1, <2>4, <2>5
  <2>7. Room' = Room
    BY ONLY <2>3, <2>5, <2>6, NewRoom
  <2>8. Room' >= Room
    BY <2>5, <2>7
  <2>9. Steady
    BY <2>1, <2>4 DEF Steady, Healthy
  <2>10. NoFate
    BY <1>1, <2>1, SameFates
  <2>11. QED BY <1>1, <1>2, <2>1, <2>2, <2>8, <2>9, <2>10 DEF Rests
<1>4. ASSUME NEW p \in Acknowledgement, ReceiveUnknown(p) PROVE FALSE
  <2>1. p \in ToSet(toClient) /\ Unknown(p.id)
    BY <1>2, <1>4 DEF ReceiveUnknown
  <2>2. PICK e \in ToSet(inflight) : e.id = p.id
    BY <1>1, <2>1, KnownAck
  <2>3. PICK i \in 1 .. Len(inflight) : e = inflight[i]
    BY <1>1, <2>2, ToSetMembers
  <2>4. DOMAIN inflight = 1 .. Len(inflight)
    BY <1>1, LenProperties
  <2>5. QED BY <2>1, <2>2, <2>3, <2>4 DEF Unknown
<1>5. ASSUME NEW p \in Acknowledgement,
             ReceivePuback(p) \/ ReceiveMismatch(p) \/ ReceiveRefused(p) \/ ReceivePubcomp(p)
      PROVE  \E e \in InFlight : Finishes(p, e)
  <2>1. /\ p = Head(toClient) /\ connected /\ handler = "none"
        /\ UNCHANGED <<connected, maxQuota, quota, early, wire, open>>
    BY <1>5 DEF ReceivePuback, ReceiveMismatch, ReceiveRefused, ReceivePubcomp, HandlePuback,
          HandlePubrecMismatch, HandlePubrecError, HandlePubcomp
  <2>2. /\ handler' \in {"puback", "puback_mismatch", "pubrec_mismatch"} => Room' = Room - 1
        /\ handler' = "none" => Room' = Room
    BY <1>1, <2>1, HandlerRoom
  <2>3. PICK i \in DOMAIN inflight, o \in Outcomes \ {"pending"} :
          /\ IsFirst(i, p.id) /\ Finish(i, o)
          /\ \/ /\ p.type = "puback" /\ inflight[i].state = "waiting_puback"
                /\ o # "done" /\ handler' = "puback"
             \/ /\ p.type = "puback" /\ inflight[i].state # "waiting_puback"
                /\ handler' = "puback_mismatch"
             \/ /\ p.type = "pubrec" /\ inflight[i].state = "waiting_puback"
                /\ handler' = "pubrec_mismatch"
             \/ p.type \in {"refused", "pubcomp"} /\ o # "done" /\ handler' = "none"
    <3>1. {"completed", "rejected", "done"} = Outcomes \ {"pending"}
      BY DEF Outcomes
    <3>2. CASE ReceivePuback(p)
      BY <3>1, <3>2 DEF ReceivePuback, HandlePuback
    <3>3. CASE ReceiveMismatch(p)
      BY <3>1, <3>3 DEF ReceiveMismatch, HandlePubrecMismatch
    <3>4. CASE ReceiveRefused(p)
      BY <2>1, <3>1, <3>4 DEF ReceiveRefused, HandlePubrecError
    <3>5. CASE ReceivePubcomp(p)
      BY <2>1, <3>1, <3>5 DEF ReceivePubcomp, HandlePubcomp
    <3>6. QED BY <1>5, <3>2, <3>3, <3>4, <3>5
  <2> DEFINE e == inflight[i]
  <2>4. /\ e \in InFlight /\ e \in ToSet(inflight) /\ e.id = p.id
        /\ Lost(inflight, inflight', e) /\ outcome' = [outcome EXCEPT ![e.op] = o]
    BY <1>1, <2>3, FinishMoves
  <2>5. \/ p.type = "puback" /\ e.state = "waiting_puback" /\ o # "done"
             /\ handler' = "puback" /\ Room' = Room - 1
        \/ p.type = "puback" /\ e.state # "waiting_puback" /\ handler' = "puback_mismatch"
             /\ Room' = Room - 1
        \/ p.type = "pubrec" /\ e.state = "waiting_puback" /\ handler' = "pubrec_mismatch"
             /\ Room' = Room - 1
        \/ p.type \in {"refused", "pubcomp"} /\ o # "done" /\ handler' = "none"
             /\ Room' = Room
    BY <2>2, <2>3
  <2> HIDE DEF e
  <2>6. Finishes(p, e)
    BY <1>1, <1>2, <2>1, <2>4, <2>5 DEF Finishes
  <2>7. QED BY <2>4, <2>6
<1>6. ASSUME NEW p \in Acknowledgement, ReceivePubrec(p)
      PROVE  \E e \in InFlight : Releases(p, e)
  <2>1. /\ p = Head(toClient) /\ p.type = "pubrec" /\ handler = "none"
        /\ UNCHANGED <<connected, maxQuota, quota, early, open, handler, outcome>>
    BY <1>6 DEF ReceivePubrec, HandlePubrec, history
  <2>2. Room' = Room
    BY <2>1 DEF Room, Granted, Returning, Closing
  <2>3. PICK i \in DOMAIN inflight :
          /\ inflight[i].id = p.id /\ inflight[i].state # "waiting_puback"
          /\ inflight' = [inflight EXCEPT ![i].state = "waiting_pubcomp"]
          /\ SendMessage(PubrelPacket(p.id, TRUE))
    BY <1>6 DEF ReceivePubrec, HandlePubrec, IsFirst
  <2>4. i \in 1 .. Len(inflight) /\ inflight[i] \in InFlight
    BY <1>1, LenProperties, ElementOfSeq
  <2> DEFINE e == inflight[i]
             f == [e EXCEPT !.state = "waiting_pubcomp"]
  <2>5. f \in InFlight /\ inflight' = [inflight EXCEPT ![i] = f]
    BY <2>3, <2>4 DEF InFlight, States
  <2>6. Replaced(inflight, inflight', e, f)
    <3> HIDE DEF f
    <3>1. QED BY <1>1, <2>4, <2>5, Moves
  <2>7. IF open THEN Gained(wire, wire', PubrelPacket(p.id, TRUE)) ELSE wire' = wire
    <3>1. PubrelPacket(p.id, TRUE) \in Packet
      BY PubrelPackets DEF Acknowledgement
    <3>2. wire' = IF open THEN Append(wire, PubrelPacket(p.id, TRUE)) ELSE wire
      BY <2>1, <2>3 DEF SendMessage
    <3>3. QED BY <1>1, <3>1, <3>2, Moves DEF TypeOK
  <2>8. NoFate
    BY <1>1, <2>1, SameFates
  <2>9. Releases(p, e)
    <3>1. e.id = p.id /\ e.state # "waiting_puback"
      BY <2>3
    <3>2. QED BY <1>1, <1>2, <2>1, <2>2, <2>6, <2>7, <2>8, <3>1 DEF Releases
  <2>10. QED BY <2>4, <2>9
<1>7. QED BY <1>3, <1>4, <1>5, <1>6, ClientReceives

\* The server changes the stage of an exchange.
LEMMA StagedMoves ==
    ASSUME SessionTypeOK, NEW i \in DOMAIN exchanges, NEW stage \in Stages
    PROVE  /\ exchanges[i] \in Exchange /\ exchanges[i] \in ToSet(exchanges)
           /\ Replaced(exchanges, Staged(i, stage), exchanges[i], [exchanges[i] EXCEPT !.stage = stage])
<1>1. exchanges \in Seq(Exchange) /\ i \in 1 .. Len(exchanges)
  BY LenProperties DEF SessionTypeOK
<1>2. exchanges[i] \in Exchange /\ exchanges[i] \in ToSet(exchanges)
  BY <1>1, ElementOfSeq, ToSetMembers
<1> DEFINE y == [exchanges[i] EXCEPT !.stage = stage]
<1>3. y \in Exchange
  BY <1>2, DutyKinds
<1>4. Staged(i, stage) = [exchanges EXCEPT ![i] = y]
  BY DEF Staged
<1>5. Replaced(exchanges, Staged(i, stage), exchanges[i], y)
  <2> HIDE DEF y
  <2>1. Replaced(exchanges, [exchanges EXCEPT ![i] = y], exchanges[i], y)
    BY ONLY <1>1, <1>3, Moves
  <2>2. QED BY ONLY <1>4, <2>1
<1>6. QED BY <1>2, <1>5

LEMMA ServerReceiveEvents ==
    ASSUME TypeOK, SessionTypeOK, ServerReceive
    PROVE  \E p \in Packet : Arrives(p)
<1> DEFINE p == Head(wire)
<1>1. /\ wire \in Seq(Packet) /\ wire # <<>> /\ wire' = Tail(wire) /\ open
      /\ UNCHANGED <<connected, open, maxQuota, quota, inflight, handler, outcome, early, toClient>>
      /\ exchanges \in Seq(Exchange)
  BY DEF ServerReceive, Transmit, TypeOK, SessionTypeOK, history
<1>2. p \in Packet /\ Lost(wire, wire', p)
  BY <1>1, Moves
<1>3. p.id \in U16 /\ (p.type = "publish" => p.op \in 0 .. MaxPublishes)
  BY <1>2, PacketKinds
<1>4. \/ p.type = "publish" /\ p.qos = 0 /\ UNCHANGED exchanges
      \/ p.type = "publish" /\ p.qos = 1 /\ exchanges' = Opened(p, "ack_due")
      \/ /\ p.type = "publish" /\ p.qos = 2
         /\ IF AwaitingRel(p.id) = {}
            THEN exchanges' = Opened(p, "rec_due")
            ELSE \E i \in AwaitingRel(p.id) : exchanges' = Staged(i, "rec_due")
      \/ /\ p.type = "pubrel"
         /\ IF AwaitingRel(p.id) = {}
            THEN exchanges' = Opened([op |-> 0, id |-> p.id], "comp_due")
            ELSE \E i \in AwaitingRel(p.id) : exchanges' = Staged(i, "comp_due")
  BY DEF ServerReceive
<1> HIDE DEF p
<1>5. \A stage \in Stages : p.type = "publish" =>
        Gained(exchanges, Opened(p, stage), [op |-> p.op, id |-> p.id, stage |-> stage])
  <2> SUFFICES ASSUME NEW stage \in Stages, p.type = "publish"
               PROVE  Gained(exchanges, Opened(p, stage), [op |-> p.op, id |-> p.id, stage |-> stage])
    OBVIOUS
  <2>1. [op |-> p.op, id |-> p.id, stage |-> stage] \in Exchange
    BY <1>3 DEF Exchange
  <2>2. QED BY <1>1, <2>1, Moves DEF Opened
<1>6. Gained(exchanges, Opened([op |-> 0, id |-> p.id], "comp_due"),
             [op |-> 0, id |-> p.id, stage |-> "comp_due"])
  <2>1. [op |-> 0, id |-> p.id, stage |-> "comp_due"] \in Exchange
    BY <1>3, BoundsAssumption DEF Exchange, Stages
  <2>2. QED BY <1>1, <2>1, Moves DEF Opened
<1>7. AwaitingRel(p.id) = {} => \A x \in ToSet(exchanges) : x \notin AwaitsOf(p.id)
  <2>1. DOMAIN exchanges = 1 .. Len(exchanges)
    BY <1>1, LenProperties
  <2>2. \A x \in ToSet(exchanges) : \E i \in DOMAIN exchanges : x = exchanges[i]
    BY <1>1, <2>1, ToSetMembers
  <2>3. QED BY <2>2 DEF AwaitingRel, AwaitsOf
<1>8. ASSUME NEW i \in AwaitingRel(p.id), NEW stage \in Stages, exchanges' = Staged(i, stage)
      PROVE  \E x \in AwaitsOf(p.id) : Replaced(exchanges, exchanges', x, [x EXCEPT !.stage = stage])
  <2>1. i \in DOMAIN exchanges /\ exchanges[i].id = p.id /\ exchanges[i].stage = "await_rel"
    BY DEF AwaitingRel
  <2>2. /\ exchanges[i] \in Exchange
        /\ Replaced(exchanges, exchanges', exchanges[i], [exchanges[i] EXCEPT !.stage = stage])
    BY <1>8, <2>1, StagedMoves
  <2>3. exchanges[i] \in AwaitsOf(p.id)
    BY <2>1, <2>2 DEF AwaitsOf
  <2>4. QED BY <2>2, <2>3
<1>9. "ack_due" \in Stages /\ "rec_due" \in Stages /\ "comp_due" \in Stages
  BY DEF Stages
<1>9a. CASE p.type = "publish" /\ p.qos = 0 /\ UNCHANGED exchanges
  <2>1. Arrives(p)
    BY <1>1, <1>2, <1>9a DEF Arrives
  <2>2. QED BY <1>2, <2>1
<1>10. CASE p.type = "publish" /\ p.qos = 1 /\ exchanges' = Opened(p, "ack_due")
  <2>1. Arrives(p)
    BY <1>1, <1>2, <1>5, <1>9, <1>10 DEF Arrives
  <2>2. QED BY <1>2, <2>1
<1>11. CASE p.type = "publish" /\ p.qos = 2 /\ AwaitingRel(p.id) = {} /\ exchanges' = Opened(p, "rec_due")
  <2>1. Arrives(p)
    BY <1>1, <1>2, <1>5, <1>7, <1>9, <1>11 DEF Arrives
  <2>2. QED BY <1>2, <2>1
<1>12. CASE p.type = "pubrel" /\ AwaitingRel(p.id) = {}
            /\ exchanges' = Opened([op |-> 0, id |-> p.id], "comp_due")
  <2>1. Arrives(p)
    BY <1>1, <1>2, <1>6, <1>7, <1>12 DEF Arrives
  <2>2. QED BY <1>2, <2>1
<1>13. CASE p.type = "publish" /\ p.qos = 2 /\ \E i \in AwaitingRel(p.id) : exchanges' = Staged(i, "rec_due")
  <2>1. \E x \in AwaitsOf(p.id) : Replaced(exchanges, exchanges', x, [x EXCEPT !.stage = "rec_due"])
    BY <1>8, <1>9, <1>13
  <2>2. Arrives(p)
    BY <1>1, <1>2, <1>13, <2>1 DEF Arrives
  <2>3. QED BY <1>2, <2>2
<1>14. CASE p.type = "pubrel" /\ \E i \in AwaitingRel(p.id) : exchanges' = Staged(i, "comp_due")
  <2>1. \E x \in AwaitsOf(p.id) : Replaced(exchanges, exchanges', x, [x EXCEPT !.stage = "comp_due"])
    BY <1>8, <1>9, <1>14
  <2>2. Arrives(p)
    BY <1>1, <1>2, <1>14, <2>1 DEF Arrives
  <2>3. QED BY <1>2, <2>2
<1>15. CASE p.type = "publish" /\ p.qos = 2
            /\ IF AwaitingRel(p.id) = {}
               THEN exchanges' = Opened(p, "rec_due")
               ELSE \E i \in AwaitingRel(p.id) : exchanges' = Staged(i, "rec_due")
  <2>1. CASE AwaitingRel(p.id) = {}
    BY <1>11, <1>15, <2>1
  <2>2. CASE AwaitingRel(p.id) # {}
    BY <1>13, <1>15, <2>2
  <2>3. QED BY <2>1, <2>2
<1>16. CASE p.type = "pubrel"
            /\ IF AwaitingRel(p.id) = {}
               THEN exchanges' = Opened([op |-> 0, id |-> p.id], "comp_due")
               ELSE \E i \in AwaitingRel(p.id) : exchanges' = Staged(i, "comp_due")
  <2>1. CASE AwaitingRel(p.id) = {}
    BY <1>12, <1>16, <2>1
  <2>2. CASE AwaitingRel(p.id) # {}
    BY <1>14, <1>16, <2>2
  <2>3. QED BY <2>1, <2>2
<1>17. QED BY <1>4, <1>9a, <1>10, <1>15, <1>16

LEMMA ServerAnswerEvents ==
    ASSUME TypeOK, SessionTypeOK, ServerAnswer
    PROVE  \E x \in ToSet(exchanges) : x \in Exchange /\ Answers(x)
<1>1. /\ open
      /\ UNCHANGED <<connected, open, maxQuota, quota, inflight, handler, outcome, early, wire>>
      /\ exchanges \in Seq(Exchange) /\ toClient \in Seq(ServerPacket)
      /\ DOMAIN exchanges = 1 .. Len(exchanges)
  BY LenProperties DEF ServerAnswer, SessionTypeOK, vars, history
<1>2. PICK i \in DOMAIN exchanges :
        \/ exchanges[i].stage = "ack_due" /\ Answer(i, "puback") /\ Over(i)
        \/ exchanges[i].stage = "rec_due" /\ Answer(i, "pubrec") /\ exchanges' = Staged(i, "await_rel")
        \/ exchanges[i].stage = "rec_due" /\ Answer(i, "refused") /\ Over(i)
        \/ exchanges[i].stage = "comp_due" /\ Answer(i, "pubcomp") /\ Over(i)
  BY DEF ServerAnswer, SendPuback, SendPubrec, SendPubcomp, Oldest
<1> DEFINE x == exchanges[i]
<1>3. x \in Exchange /\ x \in ToSet(exchanges)
  BY <1>1, ElementOfSeq, ToSetMembers
<1>4. \A type \in {"puback", "pubrec", "refused", "pubcomp"} :
        Answer(i, type) => Gained(toClient, toClient', Ack(type, x))
  BY <1>1, <1>3, DutyKinds, Moves DEF Answer
<1>5. Over(i) => Lost(exchanges, exchanges', x)
  BY <1>1, Moves DEF Over
<1>6. exchanges' = Staged(i, "await_rel") =>
        Replaced(exchanges, exchanges', x, [x EXCEPT !.stage = "await_rel"])
  <2>1. "await_rel" \in Stages
    BY DEF Stages
  <2>2. QED BY <2>1, StagedMoves
<1>7. \/ x.stage = "ack_due" /\ Answer(i, "puback") /\ Over(i)
      \/ x.stage = "rec_due" /\ Answer(i, "pubrec") /\ exchanges' = Staged(i, "await_rel")
      \/ x.stage = "rec_due" /\ Answer(i, "refused") /\ Over(i)
      \/ x.stage = "comp_due" /\ Answer(i, "pubcomp") /\ Over(i)
  BY <1>2
<1> HIDE DEF x
<1>8. Answers(x)
  BY <1>1, <1>4, <1>5, <1>6, <1>7 DEF Answers
<1>9. QED BY <1>3, <1>8

LEMMA QuietEvents ==
    ASSUME TypeOK, TypeOK', SessionTypeOK, Disconnect \/ UNCHANGED sessionVars
    PROVE  Rests
<1>1. /\ UNCHANGED <<connected, maxQuota, quota, inflight, handler, early, outcome, wire, exchanges>>
      /\ Room \in Int
  BY Rooms DEF Disconnect, Close, sessionVars, vars, history
<1>2. Room' = Room /\ Closing' = Closing
  BY <1>1 DEF Room, Granted, Returning, Closing
<1>3. NoFate
  BY <1>1, SameFates
<1>4. CASE Disconnect
  <2>1. ~open' /\ toClient \in Seq(ServerPacket)
    BY <1>4 DEF Disconnect, Close, SessionTypeOK
  <2>2. PICK n \in 0 .. Len(toClient) : toClient' = SubSeq(toClient, 1, n)
    BY <1>4 DEF Disconnect
  <2>3. Fewer(toClient, toClient')
    BY <2>1, <2>2, OccurrencesPrefix, ToSetProperties DEF Fewer
  <2>4. QED BY <1>1, <1>2, <1>3, <2>1, <2>3 DEF Rests, Steady, Healthy
<1>5. CASE UNCHANGED sessionVars
  <2>1. open' = open /\ toClient' = toClient
    BY <1>5 DEF sessionVars, vars
  <2>2. QED BY <1>1, <1>2, <1>3, <2>1 DEF Rests, Steady, Healthy
<1>6. QED BY <1>4, <1>5

\* Every step is one of these.
LEMMA SessionEvents ==
    ASSUME IInv, TypeOK', SessionTypeOK, TokenInv, [SessionNext]_sessionVars
    PROVE  \/ Rests
           \/ \E m \in Message : Goes(m)
           \/ \E p \in Acknowledgement, e \in InFlight : Finishes(p, e)
           \/ \E p \in Acknowledgement, e \in InFlight : Releases(p, e)
           \/ \E p \in Packet : Arrives(p)
           \/ \E x \in ToSet(exchanges) : x \in Exchange /\ Answers(x)
<1>1. TypeOK
  BY DEF IInv
<1>2. CASE (User \/ Return) /\ UNCHANGED <<toClient, exchanges>>
  BY <1>2, UserEvents, ReturnEvents
<1>3. CASE ClientReceive
  BY <1>3, ReceiveEvents
<1>4. CASE ServerReceive
  BY <1>1, <1>4, ServerReceiveEvents
<1>5. CASE ServerAnswer
  BY <1>1, <1>5, ServerAnswerEvents
<1>6. CASE Disconnect \/ UNCHANGED sessionVars
  BY <1>1, <1>6, QuietEvents
<1>7. QED BY <1>2, <1>3, <1>4, <1>5, <1>6 DEF SessionNext
-----------------------------------------------------------------------------
(* The invariant, step by step *)

\* A step between states of the right types, from a reachable one.
Situation == IInv /\ TypeOK' /\ SessionTypeOK /\ SessionTypeOK'

\* What is in the sequences before and after a step.
LEMMA SituationTypes ==
    ASSUME Situation
    PROVE  /\ TypeOK /\ TypeOK' /\ SessionTypeOK /\ SessionTypeOK' /\ IInv
           /\ wire \in Seq(Packet) /\ wire' \in Seq(Packet)
           /\ inflight \in Seq(InFlight) /\ inflight' \in Seq(InFlight)
           /\ exchanges \in Seq(Exchange) /\ exchanges' \in Seq(Exchange)
           /\ toClient \in Seq(ServerPacket) /\ toClient' \in Seq(ServerPacket)
           /\ ToSet(wire) \subseteq Packet /\ ToSet(inflight) \subseteq InFlight
           /\ ToSet(exchanges) \subseteq Exchange /\ ToSet(toClient) \subseteq ServerPacket
           /\ ToSet(wire') \subseteq Packet /\ ToSet(inflight') \subseteq InFlight
           /\ ToSet(exchanges') \subseteq Exchange /\ ToSet(toClient') \subseteq ServerPacket
<1>1. /\ TypeOK /\ TypeOK' /\ SessionTypeOK /\ SessionTypeOK' /\ IInv
      /\ wire \in Seq(Packet) /\ wire' \in Seq(Packet)
      /\ inflight \in Seq(InFlight) /\ inflight' \in Seq(InFlight)
      /\ exchanges \in Seq(Exchange) /\ exchanges' \in Seq(Exchange)
      /\ toClient \in Seq(ServerPacket) /\ toClient' \in Seq(ServerPacket)
  BY DEF Situation, IInv, TypeOK, SessionTypeOK
<1>2. \A S : \A s \in Seq(S) : ToSet(s) \subseteq S
  BY ToSetMembers
<1>3. QED BY ONLY <1>1, <1>2

\* What occurs is a number.
LEMMA SituationCounts ==
    ASSUME Situation, NEW T
    PROVE  /\ Occurrences(wire, T) \in Nat /\ Occurrences(wire', T) \in Nat
           /\ Occurrences(inflight, T) \in Nat /\ Occurrences(inflight', T) \in Nat
           /\ Occurrences(exchanges, T) \in Nat /\ Occurrences(exchanges', T) \in Nat
           /\ Occurrences(toClient, T) \in Nat /\ Occurrences(toClient', T) \in Nat
BY SituationTypes, OccurrencesMember

\* The entry of a publish in flight.
LEMMA EntryKinds ==
    ASSUME NEW e \in InFlight
    PROVE  /\ e.op \in 1 .. MaxPublishes /\ e.id \in U16 /\ e.qos \in Both /\ e.state \in States
           /\ \A id, Q : e \in EntriesOf(id, Q) <=> e.id = id /\ e.qos \in Q
           /\ [e EXCEPT !.state = "waiting_pubcomp"] \in InFlight
           /\ [e EXCEPT !.state = "waiting_pubcomp"].op = e.op
           /\ [e EXCEPT !.state = "waiting_pubcomp"].qos = e.qos
           /\ [e EXCEPT !.state = "waiting_pubcomp"].id = e.id
           /\ [e EXCEPT !.state = "waiting_pubcomp"].state = "waiting_pubcomp"
BY QosAssumption DEF InFlight, EntriesOf, States, Both

LEMMA SharedStep ==
    ASSUME Situation, SharedInv, TokenInv, [SessionNext]_sessionVars
    PROVE  SharedInv' /\ shared \subseteq shared'
<1>1. NoteShared \/ UNCHANGED <<shared, inflight>>
  BY DEF SessionNext, ClientReceive, ServerReceive, ServerAnswer, Disconnect, Transmit, Close,
     sessionVars, vars
<1>2. shared \subseteq shared'
  BY <1>1 DEF NoteShared
<1>3. \A e, f \in ToSet(inflight') : e.op # f.op /\ e.id = f.id => e.op \in shared'
  <2>1. CASE UNCHANGED <<shared, inflight>>
    BY <2>1 DEF SharedInv
  <2>2. CASE NoteShared
    <3> SUFFICES ASSUME NEW e \in ToSet(inflight'), NEW f \in ToSet(inflight'), e.op # f.op, e.id = f.id
                 PROVE  e.op \in shared'
      OBVIOUS
    <3>1. inflight' \in Seq(InFlight) /\ DOMAIN inflight' = 1 .. Len(inflight')
      BY SituationTypes, LenProperties
    <3>2. PICK i \in DOMAIN inflight' : e = inflight'[i]
      BY <3>1, ToSetMembers
    <3>3. PICK k \in DOMAIN inflight' : f = inflight'[k]
      BY <3>1, ToSetMembers
    <3>4. k # i /\ inflight'[k].id = inflight'[i].id
      BY <3>2, <3>3
    <3>5. QED BY <2>2, <3>2, <3>4 DEF NoteShared
  <2>3. QED BY <1>1, <2>1, <2>2
<1>4. \A e \in ToSet(inflight') : e.state = "waiting_puback" <=> e.qos = 1
  <2>1. \A e \in ToSet(inflight) : e.state = "waiting_puback" <=> e.qos = 1
    BY DEF SharedInv
  <2>2. CASE inflight' = inflight
    BY <2>1, <2>2
  <2>3. ASSUME NEW m \in Message, Goes(m)
        PROVE  \A e \in ToSet(inflight') : e.state = "waiting_puback" <=> e.qos = 1
    BY <2>1, <2>3, Entrance DEF Goes, Gained
  <2>4. ASSUME NEW p, NEW e \in InFlight, Finishes(p, e)
        PROVE  \A f \in ToSet(inflight') : f.state = "waiting_puback" <=> f.qos = 1
    BY <2>1, <2>4 DEF Finishes, Lost
  <2>5. ASSUME NEW p, NEW e \in InFlight, Releases(p, e)
        PROVE  \A f \in ToSet(inflight') : f.state = "waiting_puback" <=> f.qos = 1
    <3> DEFINE g == [e EXCEPT !.state = "waiting_pubcomp"]
    <3>1. e \in ToSet(inflight) /\ e.state # "waiting_puback" /\ ToSet(inflight') \subseteq ToSet(inflight) \cup {g}
      BY <2>5 DEF Releases, Replaced
    <3>2. g.state = "waiting_pubcomp" /\ g.qos = e.qos
      BY EntryKinds
    <3> HIDE DEF g
    <3>3. QED BY <2>1, <3>1, <3>2
  <2>6. Rests \/ (\E p \in Packet : Arrives(p)) \/ (\E x : Answers(x)) => inflight' = inflight
    BY DEF Rests, Arrives, Answers
  <2>7. IInv /\ TypeOK' /\ SessionTypeOK
    BY DEF Situation
  <2>8. QED BY <2>2, <2>3, <2>4, <2>5, <2>6, <2>7, SessionEvents
<1>5. QED BY <1>2, <1>3, <1>4 DEF SharedInv

\* What the tokens and the entries of an identifier are made of.
LEMMA TokenSums ==
    ASSUME Situation, NEW id, NEW Q
    PROVE  /\ Tokens(id, Q) = Occurrences(wire, PacketsOf(id, Q)) + Occurrences(exchanges, DutiesOf(id, Q))
                                + Occurrences(toClient, AcksOf(id, Q))
           /\ Tokens(id, Q)' = Occurrences(wire', PacketsOf(id, Q)) + Occurrences(exchanges', DutiesOf(id, Q))
                                + Occurrences(toClient', AcksOf(id, Q))
           /\ Entries(id, Q) = Occurrences(inflight, EntriesOf(id, Q))
           /\ Entries(id, Q)' = Occurrences(inflight', EntriesOf(id, Q))
BY DEF Tokens, Entries

\* No step makes more tokens than publishes.
LEMMA TokenMoves ==
    ASSUME Situation, SharedInv, NEW id \in U16, NEW Q, Q = Both \/ (Q = {2} /\ Healthy'),
           Tokens(id, Q) <= Entries(id, Q),
           \/ Rests
           \/ \E m \in Message : Goes(m)
           \/ \E p \in Acknowledgement, e \in InFlight : Finishes(p, e)
           \/ \E p \in Acknowledgement, e \in InFlight : Releases(p, e)
           \/ \E p \in Packet : Arrives(p)
           \/ \E x \in ToSet(exchanges) : x \in Exchange /\ Answers(x)
    PROVE  Tokens(id, Q)' <= Entries(id, Q)'
<1> DEFINE P == PacketsOf(id, Q)
           D == DutiesOf(id, Q)
           A == AcksOf(id, Q)
           E == EntriesOf(id, Q)
<1>1. 0 \notin Q /\ 2 \in Q /\ (1 \in Q <=> Q = Both)
  BY DEF Both
<1>2. /\ Tokens(id, Q) = Occurrences(wire, P) + Occurrences(exchanges, D) + Occurrences(toClient, A)
      /\ Tokens(id, Q)' = Occurrences(wire', P) + Occurrences(exchanges', D) + Occurrences(toClient', A)
      /\ Entries(id, Q) = Occurrences(inflight, E)
      /\ Entries(id, Q)' = Occurrences(inflight', E)
  BY TokenSums
<1>3. /\ Occurrences(wire, P) \in Nat /\ Occurrences(wire', P) \in Nat
      /\ Occurrences(exchanges, D) \in Nat /\ Occurrences(exchanges', D) \in Nat
      /\ Occurrences(toClient, A) \in Nat /\ Occurrences(toClient', A) \in Nat
      /\ Occurrences(inflight, E) \in Nat /\ Occurrences(inflight', E) \in Nat
  BY SituationCounts
<1>4. Occurrences(wire, P) + Occurrences(exchanges, D) + Occurrences(toClient, A) <= Occurrences(inflight, E)
  BY <1>2
<1> HIDE DEF P, D, A, E
<1>5. SUFFICES Occurrences(wire', P) + Occurrences(exchanges', D) + Occurrences(toClient', A)
               <= Occurrences(inflight', E)
  BY <1>2
<1>6. CASE Rests
  <2>1. Occurrences(wire', P) = Occurrences(wire, P)
    <3>1. \A p \in Packet : p.type = "publish" /\ p.qos = 0 => p \notin P
      BY <1>1, PacketKinds DEF P
    <3>2. CASE wire' = wire
      BY <3>2
    <3>3. ASSUME NEW p \in Packet, p \notin P, Gained(wire, wire', p)
          PROVE  Occurrences(wire', P) = Occurrences(wire, P)
      <4>1. Occurrences(wire', P) = Occurrences(wire, P) + 0
        BY <3>3 DEF Gained
      <4>2. QED BY ONLY <1>3, <4>1
    <3>4. QED BY <1>6, <3>1, <3>2, <3>3 DEF Rests
  <2>2. Occurrences(toClient', A) <= Occurrences(toClient, A)
    <3>1. \A p \in Connack : p \notin A
      BY AckKinds DEF A, ServerPacket, Connack
    <3>2. CASE toClient' = toClient
      BY <1>3, <3>2
    <3>3. ASSUME NEW p \in Connack, Lost(toClient, toClient', p)
          PROVE  Occurrences(toClient', A) <= Occurrences(toClient, A)
      <4>1. Occurrences(toClient, A) = Occurrences(toClient', A) + 0
        BY <3>1, <3>3 DEF Lost
      <4>2. QED BY ONLY <1>3, <4>1
    <3>4. CASE Fewer(toClient, toClient')
      BY <3>4 DEF Fewer
    <3>5. QED BY <1>6, <3>2, <3>3, <3>4 DEF Rests
  <2>3. inflight' = inflight /\ exchanges' = exchanges
    BY <1>6 DEF Rests
  <2>4. QED BY <1>3, <1>4, <2>1, <2>2, <2>3
<1>7. ASSUME NEW m \in Message, Goes(m)
      PROVE  Occurrences(wire', P) + Occurrences(exchanges', D) + Occurrences(toClient', A)
             <= Occurrences(inflight', E)
  <2>1. /\ PublishPacket(m) \in P <=> m.id = id /\ m.qos \in Q
        /\ Flying(m) \in E <=> m.id = id /\ m.qos \in Q
    BY PublishPackets, PacketKinds, Entrance DEF P, E
  <2>2. Occurrences(inflight', E) = Occurrences(inflight, E) + IF Flying(m) \in E THEN 1 ELSE 0
    BY <1>7 DEF Goes, Gained
  <2>3. \/ Occurrences(wire', P) = Occurrences(wire, P) + IF PublishPacket(m) \in P THEN 1 ELSE 0
        \/ wire' = wire
    BY <1>7 DEF Goes, Gained
  <2>4. toClient' = toClient /\ exchanges' = exchanges
    BY <1>7 DEF Goes
  <2>5. QED BY <1>3, <1>4, <2>1, <2>2, <2>3, <2>4
<1>8. ASSUME NEW p \in Acknowledgement, NEW e \in InFlight, Finishes(p, e)
      PROVE  Occurrences(wire', P) + Occurrences(exchanges', D) + Occurrences(toClient', A)
             <= Occurrences(inflight', E)
  <2>1. p \in ServerPacket /\ p.type # "connack"
    BY DEF ServerPacket, Acknowledgement
  <2>2. /\ p \in A <=> p.id = id /\ (IF p.type = "puback" THEN 1 \in Q ELSE 2 \in Q)
        /\ e \in E <=> e.id = id /\ e.qos \in Q
        /\ e.qos \in Both
    BY <2>1, AckKinds, EntryKinds DEF A, E
  <2>3. e.id = p.id /\ (e.state = "waiting_puback" <=> e.qos = 1)
    BY <1>8 DEF Finishes, SharedInv
  <2>4. e \in E => p \in A
    <3>1. CASE Q = Both
      BY <1>1, <2>2, <2>3, <3>1
    <3>2. CASE Q = {2} /\ Healthy'
      <4>1. p.type = "puback" => e.qos = 1
        BY <1>8, <2>3, <3>2 DEF Finishes, Healthy
      <4>2. QED BY <1>1, <2>2, <2>3, <3>2, <4>1
    <3>3. QED BY <3>1, <3>2
  <2>5. Occurrences(inflight, E) = Occurrences(inflight', E) + IF e \in E THEN 1 ELSE 0
    BY <1>8 DEF Finishes, Lost
  <2>6. Occurrences(toClient, A) = Occurrences(toClient', A) + IF p \in A THEN 1 ELSE 0
    BY <1>8 DEF Finishes, Lost
  <2>7. wire' = wire /\ exchanges' = exchanges
    BY <1>8 DEF Finishes
  <2>8. QED BY <1>3, <1>4, <2>4, <2>5, <2>6, <2>7
<1>9. ASSUME NEW p \in Acknowledgement, NEW e \in InFlight, Releases(p, e)
      PROVE  Occurrences(wire', P) + Occurrences(exchanges', D) + Occurrences(toClient', A)
             <= Occurrences(inflight', E)
  <2> DEFINE g == [e EXCEPT !.state = "waiting_pubcomp"]
             r == PubrelPacket(p.id, TRUE)
  <2>1. p \in ServerPacket /\ p.id \in U16 /\ p.type = "pubrec"
    BY <1>9 DEF ServerPacket, Acknowledgement, Releases
  <2>2. p \in A <=> p.id = id
    BY <1>1, <2>1, AckKinds DEF A
  <2>3. r \in P <=> p.id = id
    BY <1>1, <2>1, PubrelPackets, PacketKinds DEF P
  <2>4. g \in E <=> e \in E
    <3>1. g \in InFlight /\ g.id = e.id /\ g.qos = e.qos
      BY EntryKinds
    <3> HIDE DEF g
    <3>2. QED BY <3>1, EntryKinds DEF E
  <2>5. Replaced(inflight, inflight', e, g)
    BY <1>9 DEF Releases
  <2>6. Gained(wire, wire', r) \/ wire' = wire
    BY <1>9 DEF Releases
  <2>7. Lost(toClient, toClient', p) /\ exchanges' = exchanges
    BY <1>9 DEF Releases
  <2> HIDE DEF g, r
  <2>8. Occurrences(inflight', E) + (IF e \in E THEN 1 ELSE 0) = Occurrences(inflight, E) + IF g \in E THEN 1 ELSE 0
    BY <2>5 DEF Replaced
  <2>9. \/ Occurrences(wire', P) = Occurrences(wire, P) + IF r \in P THEN 1 ELSE 0
        \/ wire' = wire
    BY <2>6 DEF Gained
  <2>10. Occurrences(toClient, A) = Occurrences(toClient', A) + IF p \in A THEN 1 ELSE 0
    BY <2>7 DEF Lost
  <2>11. QED BY <1>3, <1>4, <2>2, <2>3, <2>4, <2>7, <2>8, <2>9, <2>10
<1>10. ASSUME NEW p \in Packet, Arrives(p)
       PROVE  Occurrences(wire', P) + Occurrences(exchanges', D) + Occurrences(toClient', A)
              <= Occurrences(inflight', E)
  <2>1. Occurrences(wire, P) = Occurrences(wire', P) + IF p \in P THEN 1 ELSE 0
    BY <1>10 DEF Arrives, Lost
  <2>2. p \in P <=> p.id = id /\ (IF p.type = "pubrel" THEN 2 \in Q ELSE p.qos \in Q)
    BY PacketKinds DEF P
  <2>3. toClient' = toClient /\ inflight' = inflight
    BY <1>10 DEF Arrives
  <2>4. Occurrences(exchanges', D) <= Occurrences(exchanges, D) + IF p \in P THEN 1 ELSE 0
    <3>1. \A x : x \in D <=> /\ x \in Exchange /\ x.id = id /\ x.stage # "await_rel"
                             /\ (IF x.stage = "ack_due" THEN 1 \in Q ELSE 2 \in Q)
      BY DEF D, DutiesOf, QosOfDuty
    <3>2. CASE p.type = "publish" /\ p.qos = 0 /\ UNCHANGED exchanges
      BY <1>3, <3>2
    <3>3. ASSUME NEW x, Gained(exchanges, exchanges', x), x \in D => p \in P
          PROVE  Occurrences(exchanges', D) <= Occurrences(exchanges, D) + IF p \in P THEN 1 ELSE 0
      <4>1. Occurrences(exchanges', D) = Occurrences(exchanges, D) + IF x \in D THEN 1 ELSE 0
        BY <3>3 DEF Gained
      <4>2. QED BY ONLY <1>3, <3>3, <4>1
    <3>4. ASSUME NEW x, NEW y, Replaced(exchanges, exchanges', x, y), y \in D => p \in P
          PROVE  Occurrences(exchanges', D) <= Occurrences(exchanges, D) + IF p \in P THEN 1 ELSE 0
      <4>1. Occurrences(exchanges', D) + (IF x \in D THEN 1 ELSE 0)
            = Occurrences(exchanges, D) + IF y \in D THEN 1 ELSE 0
        BY <3>4 DEF Replaced
      <4>2. QED BY ONLY <1>3, <3>4, <4>1
    <3>5. /\ p.type = "publish" /\ p.qos = 1 => ([op |-> p.op, id |-> p.id, stage |-> "ack_due"] \in D => p \in P)
          /\ p.type = "publish" /\ p.qos = 2 => ([op |-> p.op, id |-> p.id, stage |-> "rec_due"] \in D => p \in P)
          /\ p.type = "pubrel" => ([op |-> 0, id |-> p.id, stage |-> "comp_due"] \in D => p \in P)
      BY <1>1, <2>2, <3>1
    <3>6. ASSUME NEW x \in AwaitsOf(p.id), (p.type = "publish" /\ p.qos = 2) \/ p.type = "pubrel",
                 NEW stage \in Stages
          PROVE  [x EXCEPT !.stage = stage] \in D => p \in P
      <4>1. [x EXCEPT !.stage = stage].id = p.id
        BY DEF AwaitsOf, Exchange
      <4>2. QED BY <1>1, <2>2, <3>1, <3>6, <4>1
    <3>7. "rec_due" \in Stages /\ "comp_due" \in Stages
      BY DEF Stages
    <3>8. CASE p.type = "publish" /\ p.qos = 1
               /\ Gained(exchanges, exchanges', [op |-> p.op, id |-> p.id, stage |-> "ack_due"])
      BY <3>3, <3>5, <3>8
    <3>9. CASE p.type = "publish" /\ p.qos = 2
               /\ Gained(exchanges, exchanges', [op |-> p.op, id |-> p.id, stage |-> "rec_due"])
      BY <3>3, <3>5, <3>9
    <3>10. CASE p.type = "pubrel"
               /\ Gained(exchanges, exchanges', [op |-> 0, id |-> p.id, stage |-> "comp_due"])
      BY <3>3, <3>5, <3>10
    <3>11. CASE \E x \in AwaitsOf(p.id) :
                  \/ p.type = "publish" /\ p.qos = 2
                     /\ Replaced(exchanges, exchanges', x, [x EXCEPT !.stage = "rec_due"])
                  \/ p.type = "pubrel"
                     /\ Replaced(exchanges, exchanges', x, [x EXCEPT !.stage = "comp_due"])
      BY <3>4, <3>6, <3>7, <3>11
    <3>12. QED BY <1>10, <3>2, <3>8, <3>9, <3>10, <3>11 DEF Arrives
  <2>5. QED BY <1>3, <1>4, <2>1, <2>3, <2>4
<1>11. ASSUME NEW x \in Exchange, Answers(x)
       PROVE  Occurrences(wire', P) + Occurrences(exchanges', D) + Occurrences(toClient', A)
              <= Occurrences(inflight', E)
  <2>1. wire' = wire /\ inflight' = inflight
    BY <1>11 DEF Answers
  <2>2. x \in D <=> x.id = id /\ x.stage # "await_rel" /\ (IF x.stage = "ack_due" THEN 1 \in Q ELSE 2 \in Q)
    BY DutyKinds DEF D
  <2>3. \A type \in {"puback", "pubrec", "refused", "pubcomp"} :
          Ack(type, x) \in A <=> x.id = id /\ (IF type = "puback" THEN 1 \in Q ELSE 2 \in Q)
    <3> SUFFICES ASSUME NEW type \in {"puback", "pubrec", "refused", "pubcomp"}
                 PROVE  Ack(type, x) \in A <=> x.id = id /\ (IF type = "puback" THEN 1 \in Q ELSE 2 \in Q)
      OBVIOUS
    <3>1. Ack(type, x) \in ServerPacket /\ Ack(type, x).type = type /\ Ack(type, x).id = x.id
      BY DutyKinds
    <3>2. Ack(type, x).type # "connack"
      BY <3>1
    <3>3. QED BY <3>1, <3>2, AckKinds DEF A
  <2>4. [x EXCEPT !.stage = "await_rel"] \notin D
    BY DEF D, DutiesOf, Exchange
  <2>5. PICK type \in {"puback", "pubrec", "refused", "pubcomp"} :
          /\ Gained(toClient, toClient', Ack(type, x))
          /\ x.stage # "await_rel" /\ (type = "puback" <=> x.stage = "ack_due")
          /\ \/ Lost(exchanges, exchanges', x)
             \/ Replaced(exchanges, exchanges', x, [x EXCEPT !.stage = "await_rel"])
    BY <1>11 DEF Answers
  <2>6. Ack(type, x) \in A <=> x \in D
    BY <2>2, <2>3, <2>5
  <2>7. Occurrences(toClient', A) = Occurrences(toClient, A) + IF Ack(type, x) \in A THEN 1 ELSE 0
    BY <2>5 DEF Gained
  <2>8. Occurrences(exchanges, D) = Occurrences(exchanges', D) + IF x \in D THEN 1 ELSE 0
    <3>1. CASE Lost(exchanges, exchanges', x)
      BY <3>1 DEF Lost
    <3>2. CASE Replaced(exchanges, exchanges', x, [x EXCEPT !.stage = "await_rel"])
      <4>1. Occurrences(exchanges', D) + (IF x \in D THEN 1 ELSE 0) = Occurrences(exchanges, D) + 0
        BY <2>4, <3>2 DEF Replaced
      <4>2. QED BY ONLY <1>3, <4>1
    <3>3. QED BY <2>5, <3>1, <3>2
  <2>9. QED BY <1>3, <1>4, <2>1, <2>6, <2>7, <2>8
<1>12. QED BY <1>6, <1>7, <1>8, <1>9, <1>10, <1>11

LEMMA TokenStep ==
    ASSUME Situation, SharedInv, TokenInv, [SessionNext]_sessionVars
    PROVE  TokenInv'
<1>1. \/ Rests
      \/ \E m \in Message : Goes(m)
      \/ \E p \in Acknowledgement, e \in InFlight : Finishes(p, e)
      \/ \E p \in Acknowledgement, e \in InFlight : Releases(p, e)
      \/ \E p \in Packet : Arrives(p)
      \/ \E x \in ToSet(exchanges) : x \in Exchange /\ Answers(x)
  BY SessionEvents DEF Situation
<1>2. Healthy' => Healthy
  BY <1>1 DEF Rests, Goes, Finishes, Releases, Arrives, Answers, Steady, Healthy
<1>3. ASSUME NEW id \in U16 PROVE Tokens(id, Both)' <= Entries(id, Both)'
  <2>1. Tokens(id, Both) <= Entries(id, Both)
    BY DEF TokenInv
  <2>2. QED BY <1>1, <2>1, TokenMoves
<1>4. ASSUME NEW id \in U16, Healthy' PROVE Tokens(id, {2})' <= Entries(id, {2})'
  <2>1. Tokens(id, {2}) <= Entries(id, {2})
    BY <1>2, <1>4 DEF TokenInv
  <2>2. QED BY <1>1, <1>4, <2>1, TokenMoves
<1>5. QED BY <1>3, <1>4 DEF TokenInv

\* What awaits a PUBREL and what brings it, before and after a step.
LEMMA AwaitSums ==
    ASSUME Situation, NEW id
    PROVE  /\ Awaiting(id) = Occurrences(exchanges, AwaitsOf(id))
           /\ Awaiting(id)' = Occurrences(exchanges', AwaitsOf(id))
           /\ Coming(id) = Occurrences(wire, PubrelsOf(id)) + Occurrences(toClient, PubrecsOf(id))
           /\ Coming(id)' = Occurrences(wire', PubrelsOf(id)) + Occurrences(toClient', PubrecsOf(id))
           /\ Awaiting(id) \in Nat /\ Awaiting(id)' \in Nat /\ Coming(id) \in Nat /\ Coming(id)' \in Nat
           /\ Closing \in {0, 1} /\ Closing' \in {0, 1}
<1>1. /\ Occurrences(exchanges, AwaitsOf(id)) \in Nat /\ Occurrences(exchanges', AwaitsOf(id)) \in Nat
      /\ Occurrences(wire, PubrelsOf(id)) \in Nat /\ Occurrences(wire', PubrelsOf(id)) \in Nat
      /\ Occurrences(toClient, PubrecsOf(id)) \in Nat /\ Occurrences(toClient', PubrecsOf(id)) \in Nat
  BY SituationCounts
<1>2. \A a, b \in Nat : a + b \in Nat
  OBVIOUS
<1>3. /\ Awaiting(id) = Occurrences(exchanges, AwaitsOf(id))
      /\ Awaiting(id)' = Occurrences(exchanges', AwaitsOf(id))
      /\ Coming(id) = Occurrences(wire, PubrelsOf(id)) + Occurrences(toClient, PubrecsOf(id))
      /\ Coming(id)' = Occurrences(wire', PubrelsOf(id)) + Occurrences(toClient', PubrecsOf(id))
  BY DEF Awaiting, Coming
<1>4. Closing \in {0, 1} /\ Closing' \in {0, 1}
  BY DEF Closing
<1>5. Coming(id) \in Nat /\ Coming(id)' \in Nat
  BY ONLY <1>1, <1>2, <1>3
<1>6. QED BY ONLY <1>1, <1>3, <1>4, <1>5

\* What leaves the exchanges that await a PUBREL, or what brings it, alone.
LEMMA ComingMoves ==
    ASSUME Situation, NEW id \in U16
    PROVE  /\ Rests /\ open' => Awaiting(id)' = Awaiting(id) /\ Coming(id)' = Coming(id)
           /\ \A m \in Message : Goes(m) => Awaiting(id)' = Awaiting(id) /\ Coming(id)' = Coming(id)
           /\ \A p \in Acknowledgement : \A e \in InFlight : Finishes(p, e) =>
                /\ Awaiting(id)' = Awaiting(id)
                /\ Coming(id) = Coming(id)' + IF p.type = "pubrec" /\ p.id = id THEN 1 ELSE 0
           /\ \A p \in Acknowledgement : \A e \in InFlight : Releases(p, e) /\ open =>
                /\ Awaiting(id)' = Awaiting(id) /\ Coming(id)' = Coming(id)
<1> DEFINE W == AwaitsOf(id)
           R == PubrelsOf(id)
           B == PubrecsOf(id)
<1>1. /\ Awaiting(id) = Occurrences(exchanges, W)
      /\ Awaiting(id)' = Occurrences(exchanges', W)
      /\ Coming(id) = Occurrences(wire, R) + Occurrences(toClient, B)
      /\ Coming(id)' = Occurrences(wire', R) + Occurrences(toClient', B)
  BY AwaitSums
<1>2. /\ Occurrences(exchanges, W) \in Nat /\ Occurrences(exchanges', W) \in Nat
      /\ Occurrences(wire, R) \in Nat /\ Occurrences(wire', R) \in Nat
      /\ Occurrences(toClient, B) \in Nat /\ Occurrences(toClient', B) \in Nat
  BY SituationCounts
<1>3. \A p : /\ p \in R <=> p \in Packet /\ p.id = id /\ p.type = "pubrel"
             /\ p \in B <=> p \in Acknowledgement /\ p.id = id /\ p.type = "pubrec"
  BY DEF PubrelsOf, PubrecsOf
<1> HIDE DEF W, R, B
<1>4. ASSUME Rests, open' PROVE Awaiting(id)' = Awaiting(id) /\ Coming(id)' = Coming(id)
  <2>1. exchanges' = exchanges
    BY <1>4 DEF Rests
  <2>2. Occurrences(wire', R) = Occurrences(wire, R)
    <3>1. CASE wire' = wire
      BY <3>1
    <3>2. ASSUME NEW p \in Packet, p.type = "publish", Gained(wire, wire', p)
          PROVE  Occurrences(wire', R) = Occurrences(wire, R)
      <4>1. Occurrences(wire', R) = Occurrences(wire, R) + 0
        BY <1>3, <3>2 DEF Gained
      <4>2. QED BY ONLY <1>2, <4>1
    <3>3. QED BY <1>4, <3>1, <3>2 DEF Rests
  <2>3. Occurrences(toClient', B) = Occurrences(toClient, B)
    <3>1. CASE toClient' = toClient
      BY <3>1
    <3>2. ASSUME NEW p \in Connack, Lost(toClient, toClient', p)
          PROVE  Occurrences(toClient', B) = Occurrences(toClient, B)
      <4>1. p \notin B
        BY <1>3 DEF Connack
      <4>2. Occurrences(toClient, B) = Occurrences(toClient', B) + 0
        BY <3>2, <4>1 DEF Lost
      <4>3. QED BY ONLY <1>2, <4>2
    <3>3. QED BY <1>4, <3>1, <3>2 DEF Rests
  <2>4. QED BY <1>1, <2>1, <2>2, <2>3
<1>5. ASSUME NEW m \in Message, Goes(m)
      PROVE  Awaiting(id)' = Awaiting(id) /\ Coming(id)' = Coming(id)
  <2>1. exchanges' = exchanges /\ toClient' = toClient
    BY <1>5 DEF Goes
  <2>2. PublishPacket(m) \notin R
    BY <1>3, PublishPackets
  <2>3. Occurrences(wire', R) = Occurrences(wire, R)
    <3>1. CASE wire' = wire
      BY <3>1
    <3>2. CASE Gained(wire, wire', PublishPacket(m))
      <4>1. Occurrences(wire', R) = Occurrences(wire, R) + 0
        BY <2>2, <3>2 DEF Gained
      <4>2. QED BY ONLY <1>2, <4>1
    <3>3. QED BY <1>5, <3>1, <3>2 DEF Goes
  <2>4. QED BY <1>1, <2>1, <2>3
<1>6. ASSUME NEW p \in Acknowledgement, NEW e \in InFlight, Finishes(p, e)
      PROVE  /\ Awaiting(id)' = Awaiting(id)
             /\ Coming(id) = Coming(id)' + IF p.type = "pubrec" /\ p.id = id THEN 1 ELSE 0
  <2>1. exchanges' = exchanges /\ wire' = wire
    BY <1>6 DEF Finishes
  <2>2. p \in B <=> p.type = "pubrec" /\ p.id = id
    BY <1>3
  <2>3. Occurrences(toClient, B) = Occurrences(toClient', B) + IF p \in B THEN 1 ELSE 0
    BY <1>6 DEF Finishes, Lost
  <2>4. QED BY <1>1, <1>2, <2>1, <2>2, <2>3
<1>7. ASSUME NEW p \in Acknowledgement, NEW e \in InFlight, Releases(p, e), open
      PROVE  Awaiting(id)' = Awaiting(id) /\ Coming(id)' = Coming(id)
  <2> DEFINE r == PubrelPacket(p.id, TRUE)
  <2>1. p.type = "pubrec" /\ p.id \in U16 /\ exchanges' = exchanges
    BY <1>7 DEF Releases, Acknowledgement
  <2>2. (p \in B <=> p.id = id) /\ (r \in R <=> p.id = id)
    BY <1>3, <2>1, PubrelPackets
  <2>3. Gained(wire, wire', r) /\ Lost(toClient, toClient', p)
    BY <1>7 DEF Releases
  <2> HIDE DEF r
  <2>4. Occurrences(toClient, B) = Occurrences(toClient', B) + IF p \in B THEN 1 ELSE 0
    BY <2>3 DEF Lost
  <2>5. Occurrences(wire', R) = Occurrences(wire, R) + IF r \in R THEN 1 ELSE 0
    BY <2>3 DEF Gained
  <2>6. Coming(id)' = Coming(id)
    BY <1>1, <1>2, <2>2, <2>4, <2>5
  <2>7. QED BY <1>1, <2>1, <2>6
<1>8. QED BY <1>4, <1>5, <1>6, <1>7

\* The server makes no exchange wait for a PUBREL that is not to come.
LEMMA AwaitMoves ==
    ASSUME Situation, NEW id \in U16
    PROVE  /\ \A p \in Packet : Arrives(p) =>
                \/ Awaiting(id)' = Awaiting(id) /\ Coming(id)' = Coming(id)
                \/ Awaiting(id) = Awaiting(id)' + 1 /\ Coming(id) <= Coming(id)' + 1
                \/ Awaiting(id)' = 0
           /\ \A x \in Exchange : Answers(x) =>
                \/ Awaiting(id)' = Awaiting(id) /\ Coming(id)' = Coming(id)
                \/ Awaiting(id)' = Awaiting(id) + 1 /\ Coming(id)' = Coming(id) + 1
<1> DEFINE W == AwaitsOf(id)
           R == PubrelsOf(id)
           B == PubrecsOf(id)
<1>1. /\ Awaiting(id) = Occurrences(exchanges, W)
      /\ Awaiting(id)' = Occurrences(exchanges', W)
      /\ Coming(id) = Occurrences(wire, R) + Occurrences(toClient, B)
      /\ Coming(id)' = Occurrences(wire', R) + Occurrences(toClient', B)
  BY AwaitSums
<1>2. /\ Occurrences(exchanges, W) \in Nat /\ Occurrences(exchanges', W) \in Nat
      /\ Occurrences(wire, R) \in Nat /\ Occurrences(wire', R) \in Nat
      /\ Occurrences(toClient, B) \in Nat /\ Occurrences(toClient', B) \in Nat
  BY SituationCounts
<1>3. \A p : /\ p \in R <=> p \in Packet /\ p.id = id /\ p.type = "pubrel"
             /\ p \in B <=> p \in Acknowledgement /\ p.id = id /\ p.type = "pubrec"
             /\ p \in W <=> p \in Exchange /\ p.id = id /\ p.stage = "await_rel"
  BY DEF PubrelsOf, PubrecsOf, AwaitsOf
<1> HIDE DEF W, R, B
<1>4. ASSUME NEW p \in Packet, Arrives(p)
      PROVE  \/ Awaiting(id)' = Awaiting(id) /\ Coming(id)' = Coming(id)
             \/ Awaiting(id) = Awaiting(id)' + 1 /\ Coming(id) <= Coming(id)' + 1
             \/ Awaiting(id)' = 0
  <2>1. toClient' = toClient
    BY <1>4 DEF Arrives
  <2>2. Occurrences(wire, R) = Occurrences(wire', R) + IF p.id = id /\ p.type = "pubrel" THEN 1 ELSE 0
    BY <1>3, <1>4 DEF Arrives, Lost
  <2>3. Coming(id) = Coming(id)' + IF p.id = id /\ p.type = "pubrel" THEN 1 ELSE 0
    BY <1>1, <1>2, <2>1, <2>2
  <2>4. ASSUME NEW x, x \notin W, Gained(exchanges, exchanges', x)
        PROVE  Awaiting(id)' = Awaiting(id)
    <3>1. Occurrences(exchanges', W) = Occurrences(exchanges, W) + 0
      BY <2>4 DEF Gained
    <3>2. Occurrences(exchanges', W) = Occurrences(exchanges, W)
      BY ONLY <1>2, <3>1
    <3>3. QED BY <1>1, <3>2
  <2>5. ASSUME NEW x, NEW y, x \in W <=> p.id = id, y \notin W, Replaced(exchanges, exchanges', x, y)
        PROVE  Awaiting(id) = Awaiting(id)' + IF p.id = id THEN 1 ELSE 0
    <3>1. Occurrences(exchanges', W) + (IF x \in W THEN 1 ELSE 0) = Occurrences(exchanges, W) + 0
      BY <2>5 DEF Replaced
    <3>2. Occurrences(exchanges, W) = Occurrences(exchanges', W) + IF p.id = id THEN 1 ELSE 0
      BY ONLY <1>2, <2>5, <3>1
    <3>3. QED BY <1>1, <3>2
  <2>6. CASE p.type = "publish" /\ p.qos = 0 /\ UNCHANGED exchanges
    BY <1>1, <1>2, <2>1, <2>2, <2>6
  <2>7. CASE p.type = "publish" /\ p.qos = 1
             /\ Gained(exchanges, exchanges', [op |-> p.op, id |-> p.id, stage |-> "ack_due"])
    <3>1. [op |-> p.op, id |-> p.id, stage |-> "ack_due"] \notin W
      BY <1>3
    <3>2. Awaiting(id)' = Awaiting(id)
      BY <2>4, <2>7, <3>1
    <3>3. Coming(id)' = Coming(id)
      BY <1>1, <1>2, <2>1, <2>2, <2>7
    <3>4. QED BY <3>2, <3>3
  <2>8. CASE p.type = "publish" /\ p.qos = 2
             /\ Gained(exchanges, exchanges', [op |-> p.op, id |-> p.id, stage |-> "rec_due"])
    <3>1. [op |-> p.op, id |-> p.id, stage |-> "rec_due"] \notin W
      BY <1>3
    <3>2. Awaiting(id)' = Awaiting(id)
      BY <2>4, <2>8, <3>1
    <3>3. Coming(id)' = Coming(id)
      BY <1>1, <1>2, <2>1, <2>2, <2>8
    <3>4. QED BY <3>2, <3>3
  <2>9. CASE /\ p.type = "pubrel" /\ (\A x \in ToSet(exchanges) : x \notin AwaitsOf(p.id))
             /\ Gained(exchanges, exchanges', [op |-> 0, id |-> p.id, stage |-> "comp_due"])
    <3>1. [op |-> 0, id |-> p.id, stage |-> "comp_due"] \notin W
      BY <1>3
    <3>2. Awaiting(id)' = Awaiting(id)
      BY <2>4, <2>9, <3>1
    <3>3. CASE p.id = id
      <4>1. \A x \in ToSet(exchanges) : x \notin W
        BY <2>9, <3>3 DEF W
      <4>2. Awaiting(id) = 0
        BY <1>1, <4>1, SituationTypes, OccurrencesMember
      <4>3. QED BY <3>2, <4>2
    <3>4. CASE p.id # id
      <4>1. Coming(id)' = Coming(id)
        BY <1>1, <1>2, <2>1, <2>2, <3>4
      <4>2. QED BY <3>2, <4>1
    <3>5. QED BY <3>3, <3>4
  <2>10. ASSUME NEW x \in AwaitsOf(p.id), NEW stage \in {"rec_due", "comp_due"},
                Replaced(exchanges, exchanges', x, [x EXCEPT !.stage = stage])
         PROVE  \/ Awaiting(id)' = Awaiting(id) /\ Coming(id)' = Coming(id)
                \/ Awaiting(id) = Awaiting(id)' + 1 /\ Coming(id) <= Coming(id)' + 1
    <3>1. x \in Exchange /\ x.id = p.id /\ x.stage = "await_rel"
      BY DEF AwaitsOf
    <3>2. x \in W <=> p.id = id
      BY <1>3, <3>1
    <3>3. [x EXCEPT !.stage = stage] \notin W
      BY <1>3, <3>1 DEF Exchange
    <3>4. Awaiting(id) = Awaiting(id)' + IF p.id = id THEN 1 ELSE 0
      BY <2>5, <2>10, <3>2, <3>3
    <3>5. Awaiting(id) \in Nat /\ Awaiting(id)' \in Nat /\ Coming(id) \in Nat /\ Coming(id)' \in Nat
      BY AwaitSums
    <3>6. CASE p.id = id
      <4>1. Coming(id) <= Coming(id)' + 1
        BY ONLY <2>3, <3>5, <3>6
      <4>2. QED BY <3>4, <3>6, <4>1
    <3>7. CASE p.id # id
      <4>1. Coming(id)' = Coming(id)
        BY <1>1, <1>2, <2>1, <2>2, <3>7
      <4>2. Awaiting(id)' = Awaiting(id)
        BY <1>1, <1>2, <3>4, <3>7
      <4>3. QED BY <4>1, <4>2
    <3>8. QED BY <3>6, <3>7
  <2>11. QED BY <1>4, <2>6, <2>7, <2>8, <2>9, <2>10 DEF Arrives
<1>5. ASSUME NEW x \in Exchange, Answers(x)
      PROVE  \/ Awaiting(id)' = Awaiting(id) /\ Coming(id)' = Coming(id)
             \/ Awaiting(id)' = Awaiting(id) + 1 /\ Coming(id)' = Coming(id) + 1
  <2>1. wire' = wire
    BY <1>5 DEF Answers
  <2>2. ASSUME NEW type \in {"puback", "refused", "pubcomp"}, Gained(toClient, toClient', Ack(type, x)),
               x.stage # "await_rel", Lost(exchanges, exchanges', x)
        PROVE  Awaiting(id)' = Awaiting(id) /\ Coming(id)' = Coming(id)
    <3>1. Ack(type, x) \notin B /\ x \notin W
      BY <1>3, <2>2 DEF Ack
    <3>2. Occurrences(toClient', B) = Occurrences(toClient, B) + 0
      BY <2>2, <3>1 DEF Gained
    <3>3. Occurrences(exchanges, W) = Occurrences(exchanges', W) + 0
      BY <2>2, <3>1 DEF Lost
    <3>4. Occurrences(toClient', B) = Occurrences(toClient, B) /\ Occurrences(exchanges', W) = Occurrences(exchanges, W)
      BY ONLY <1>2, <3>2, <3>3
    <3>5. QED BY <1>1, <2>1, <3>4
  <2>3. ASSUME Gained(toClient, toClient', Ack("pubrec", x)), x.stage = "rec_due",
               Replaced(exchanges, exchanges', x, [x EXCEPT !.stage = "await_rel"])
        PROVE  \/ Awaiting(id)' = Awaiting(id) /\ Coming(id)' = Coming(id)
               \/ Awaiting(id)' = Awaiting(id) + 1 /\ Coming(id)' = Coming(id) + 1
    <3> DEFINE y == [x EXCEPT !.stage = "await_rel"]
    <3>1. x.id \in U16 /\ x.op \in 0 .. MaxPublishes
      BY DutyKinds
    <3>2. Ack("pubrec", x) \in B <=> x.id = id
      BY <1>3, <3>1 DEF Ack, Acknowledgement
    <3>3. x \notin W /\ (y \in W <=> x.id = id)
      BY <1>3, <2>3 DEF Exchange, Stages
    <3>4. Occurrences(toClient', B) = Occurrences(toClient, B) + IF x.id = id THEN 1 ELSE 0
      BY <2>3, <3>2 DEF Gained
    <3>5. Occurrences(exchanges', W) + 0 = Occurrences(exchanges, W) + IF x.id = id THEN 1 ELSE 0
      <4> HIDE DEF y
      <4>1. Replaced(exchanges, exchanges', x, y)
        BY <2>3 DEF y
      <4>2. Occurrences(exchanges', W) + (IF x \in W THEN 1 ELSE 0)
            = Occurrences(exchanges, W) + IF y \in W THEN 1 ELSE 0
        BY <4>1 DEF Replaced
      <4>3. QED BY <3>3, <4>2
    <3>6. CASE x.id = id
      <4>1. /\ Occurrences(toClient', B) = Occurrences(toClient, B) + 1
            /\ Occurrences(exchanges', W) = Occurrences(exchanges, W) + 1
        BY ONLY <1>2, <3>4, <3>5, <3>6
      <4>2. Coming(id)' = Coming(id) + 1
        BY <1>1, <1>2, <2>1, <4>1
      <4>3. QED BY <1>1, <4>1, <4>2
    <3>7. CASE x.id # id
      <4>1. /\ Occurrences(toClient', B) = Occurrences(toClient, B)
            /\ Occurrences(exchanges', W) = Occurrences(exchanges, W)
        BY ONLY <1>2, <3>4, <3>5, <3>7
      <4>2. QED BY <1>1, <2>1, <4>1
    <3>8. QED BY <3>6, <3>7
  <2>4. QED BY <1>5, <2>2, <2>3 DEF Answers
<1>6. QED BY <1>4, <1>5

LEMMA AwaitStep ==
    ASSUME Situation, SharedInv, TokenInv, AwaitInv, [SessionNext]_sessionVars
    PROVE  AwaitInv'
<1>1. SUFFICES ASSUME open' PROVE \E y \in U16 : AwaitInvFor(y)'
  BY DEF AwaitInv
<1>2. \/ Rests
      \/ \E m \in Message : Goes(m)
      \/ \E p \in Acknowledgement, e \in InFlight : Finishes(p, e)
      \/ \E p \in Acknowledgement, e \in InFlight : Releases(p, e)
      \/ \E p \in Packet : Arrives(p)
      \/ \E x \in ToSet(exchanges) : x \in Exchange /\ Answers(x)
  BY SessionEvents DEF Situation
<1>3. open
  BY <1>1, <1>2 DEF Rests, Goes, Finishes, Releases, Arrives, Answers, Steady
<1>4. PICK y \in U16 : AwaitInvFor(y)
  BY <1>3 DEF AwaitInv
<1>5. /\ \A id \in U16 : Awaiting(id) <= Coming(id) + IF id = y THEN Closing ELSE 0
      /\ Closing = 1 => \E e \in ToSet(inflight) : e.id = y
  BY <1>4 DEF AwaitInvFor
<1>6. Closing \in {0, 1} /\ Closing' \in {0, 1}
  BY DEF Closing
<1>7. \A id \in U16 : /\ Awaiting(id) \in Nat /\ Awaiting(id)' \in Nat
                      /\ Coming(id) \in Nat /\ Coming(id)' \in Nat
  BY AwaitSums
<1>8. ASSUME Closing' = Closing, \A e \in ToSet(inflight) : \E f \in ToSet(inflight') : f.id = e.id,
             \A id \in U16 : \/ Awaiting(id)' = Awaiting(id) /\ Coming(id)' = Coming(id)
                             \/ Awaiting(id) = Awaiting(id)' + 1 /\ Coming(id) <= Coming(id)' + 1
                             \/ Awaiting(id)' = Awaiting(id) + 1 /\ Coming(id)' = Coming(id) + 1
                             \/ Awaiting(id)' = 0
      PROVE  AwaitInvFor(y)'
  <2>1. ASSUME NEW id \in U16
        PROVE  Awaiting(id)' <= Coming(id)' + IF id = y THEN Closing' ELSE 0
    <3> DEFINE k == IF id = y THEN Closing ELSE 0
    <3>1. k \in {0, 1} /\ (IF id = y THEN Closing' ELSE 0) = k
      BY <1>6, <1>8
    <3> HIDE DEF k
    <3>2. Awaiting(id) <= Coming(id) + k
      BY <1>5 DEF k
    <3>3. Awaiting(id)' <= Coming(id)' + k
      BY <1>7, <1>8, <3>1, <3>2
    <3>4. QED BY <3>1, <3>3
  <2>2. Closing' = 1 => \E e \in ToSet(inflight') : e.id = y
    BY <1>5, <1>8
  <2>3. QED BY <2>1, <2>2 DEF AwaitInvFor
<1>9. CASE Rests
  <2>1. \A id \in U16 : Awaiting(id)' = Awaiting(id) /\ Coming(id)' = Coming(id)
    BY <1>1, <1>9, ComingMoves
  <2>2. Closing' = Closing /\ inflight' = inflight
    BY <1>1, <1>9 DEF Rests, Steady
  <2>3. AwaitInvFor(y)'
    BY <1>8, <2>1, <2>2
  <2>4. QED BY <2>3
<1>10. ASSUME NEW m \in Message, Goes(m) PROVE \E z \in U16 : AwaitInvFor(z)'
  <2>1. \A id \in U16 : Awaiting(id)' = Awaiting(id) /\ Coming(id)' = Coming(id)
    BY <1>10, ComingMoves
  <2>2. Closing' = Closing /\ ToSet(inflight) \subseteq ToSet(inflight')
    BY <1>1, <1>10 DEF Goes, Steady, Gained
  <2>3. AwaitInvFor(y)'
    BY <1>8, <2>1, <2>2
  <2>4. QED BY <2>3
<1>11. ASSUME NEW p \in Acknowledgement, NEW e \in InFlight, Finishes(p, e)
       PROVE  \E z \in U16 : AwaitInvFor(z)'
  <2>1. \A id \in U16 : /\ Awaiting(id)' = Awaiting(id)
                        /\ Coming(id) = Coming(id)' + IF p.type = "pubrec" /\ p.id = id THEN 1 ELSE 0
    BY <1>11, ComingMoves
  <2>2. Closing = 0
    BY <1>11 DEF Finishes, Closing
  <2>3. CASE p.type # "pubrec"
    <3>1. Closing' = 0
      BY <1>11, <2>3 DEF Finishes, Closing
    <3>2. ASSUME NEW id \in U16
          PROVE  Awaiting(id)' <= Coming(id)' + IF id = y THEN Closing' ELSE 0
      <4>1. Awaiting(id) <= Coming(id) + 0
        BY <1>5, <2>2
      <4>2. Coming(id) = Coming(id)' + 0
        BY <2>1, <2>3
      <4>3. Awaiting(id)' <= Coming(id)' + 0
        BY <1>7, <2>1, <4>1, <4>2
      <4>4. QED BY <3>1, <4>3
    <3>3. AwaitInvFor(y)'
      BY <3>1, <3>2 DEF AwaitInvFor
    <3>4. QED BY <3>3
  <2>4. CASE p.type = "pubrec"
    <3>1. Closing' = 1 /\ e.state = "waiting_puback" /\ handler = "none" /\ p \in ToSet(toClient)
          /\ e \in ToSet(inflight)
      BY <1>11, <2>4 DEF Finishes, Closing, Lost
    <3>2. p.id \in U16
      BY DEF Acknowledgement
    <3>3. \E f \in ToSet(inflight') : f.id = p.id
      <4>1. Healthy
        BY <1>3, <3>1 DEF Healthy
      <4>2. PICK f \in ToSet(inflight) : f \in EntriesOf(p.id, {2})
        BY <2>4, <3>1, <4>1, KnownAck DEF Situation, IInv
      <4>3. e.qos = 1
        BY <3>1 DEF SharedInv
      <4>4. f # e /\ f.id = p.id
        BY <4>2, <4>3 DEF EntriesOf
      <4>5. QED BY <1>11, <4>2, <4>4 DEF Finishes, Lost
    <3>4. ASSUME NEW id \in U16
          PROVE  Awaiting(id)' <= Coming(id)' + IF id = p.id THEN Closing' ELSE 0
      <4>1. Awaiting(id) <= Coming(id) + 0
        BY <1>5, <2>2
      <4>2. CASE id = p.id
        <5>1. Coming(id) = Coming(id)' + 1
          BY <2>1, <2>4, <4>2
        <5>2. Awaiting(id)' <= Coming(id)' + 1
          BY <1>7, <2>1, <4>1, <5>1
        <5>3. QED BY <3>1, <4>2, <5>2
      <4>3. CASE id # p.id
        <5>1. Coming(id) = Coming(id)' + 0
          BY <2>1, <4>3
        <5>2. Awaiting(id)' <= Coming(id)' + 0
          BY <1>7, <2>1, <4>1, <5>1
        <5>3. QED BY <4>3, <5>2
      <4>4. QED BY <4>2, <4>3
    <3>5. AwaitInvFor(p.id)'
      BY <3>3, <3>4 DEF AwaitInvFor
    <3>6. QED BY <3>2, <3>5
  <2>5. QED BY <2>3, <2>4
<1>12. ASSUME NEW p \in Acknowledgement, NEW e \in InFlight, Releases(p, e)
       PROVE  \E z \in U16 : AwaitInvFor(z)'
  <2>1. \A id \in U16 : Awaiting(id)' = Awaiting(id) /\ Coming(id)' = Coming(id)
    BY <1>3, <1>12, ComingMoves
  <2>2. Closing' = Closing
    BY <1>12 DEF Releases, Closing
  <2>3. \A f \in ToSet(inflight) : \E g \in ToSet(inflight') : g.id = f.id
    <3> DEFINE h == [e EXCEPT !.state = "waiting_pubcomp"]
    <3>1. Replaced(inflight, inflight', e, h) /\ h.id = e.id
      BY <1>12, EntryKinds DEF Releases
    <3> HIDE DEF h
    <3>2. h \in ToSet(inflight') /\ ToSet(inflight) \subseteq ToSet(inflight') \cup {e}
      BY <3>1 DEF Replaced
    <3>3. QED BY <3>1, <3>2
  <2>4. AwaitInvFor(y)'
    BY <1>8, <2>1, <2>2, <2>3
  <2>5. QED BY <2>4
<1>13. ASSUME \/ \E p \in Packet : Arrives(p)
              \/ \E x \in ToSet(exchanges) : x \in Exchange /\ Answers(x)
       PROVE  \E z \in U16 : AwaitInvFor(z)'
  <2>1. Closing' = Closing /\ inflight' = inflight
    BY <1>13 DEF Arrives, Answers, Closing
  <2>2. \A id \in U16 : \/ Awaiting(id)' = Awaiting(id) /\ Coming(id)' = Coming(id)
                        \/ Awaiting(id) = Awaiting(id)' + 1 /\ Coming(id) <= Coming(id)' + 1
                        \/ Awaiting(id)' = Awaiting(id) + 1 /\ Coming(id)' = Coming(id) + 1
                        \/ Awaiting(id)' = 0
    BY <1>13, AwaitMoves
  <2>3. AwaitInvFor(y)'
    BY <1>8, <2>1, <2>2
  <2>4. QED BY <2>3
<1>14. QED BY <1>2, <1>9, <1>10, <1>11, <1>12, <1>13
-----------------------------------------------------------------------------
(* The window *)

\* No step loads the window beyond its room.
LEMMA LoadStep ==
    ASSUME Situation, TokenInv, LoadInv, [SessionNext]_sessionVars
    PROVE  LoadInv'
<1> DEFINE P == LoadPackets
           D == LoadDuties
           A == LoadAcks
<1>1. /\ Load = Occurrences(wire, P) + Occurrences(exchanges, D) + Occurrences(toClient, A)
      /\ Load' = Occurrences(wire', P) + Occurrences(exchanges', D) + Occurrences(toClient', A)
      /\ Load <= Room
  BY DEF Load, LoadInv
<1>2. /\ Occurrences(wire, P) \in Nat /\ Occurrences(wire', P) \in Nat
      /\ Occurrences(exchanges, D) \in Nat /\ Occurrences(exchanges', D) \in Nat
      /\ Occurrences(toClient, A) \in Nat /\ Occurrences(toClient', A) \in Nat
  BY SituationCounts
<1>3. Room \in Int /\ Room' \in Int
  BY Rooms, SituationTypes
<1>4. /\ \A p : p \in P <=> p \in Packet /\ (p.type = "pubrel" \/ p.qos \in {1, 2})
      /\ \A x : x \in D <=> x \in Exchange /\ x.stage # "await_rel"
      /\ \A p : p \in A <=> p \in Acknowledgement /\ p.type \in {"puback", "pubrec"}
  BY DEF LoadPackets, LoadDuties, LoadAcks, QosOfPacket, Both
<1> HIDE DEF P, D, A
<1>5. SUFFICES Occurrences(wire', P) + Occurrences(exchanges', D) + Occurrences(toClient', A) <= Room'
  BY <1>1 DEF LoadInv
<1>6. Occurrences(wire, P) + Occurrences(exchanges, D) + Occurrences(toClient, A) <= Room
  BY <1>1
<1>7. CASE Rests
  <2>1. Occurrences(wire', P) = Occurrences(wire, P)
    <3>1. CASE wire' = wire
      BY <3>1
    <3>2. ASSUME NEW p \in Packet, p.type = "publish", p.qos = 0, Gained(wire, wire', p)
          PROVE  Occurrences(wire', P) = Occurrences(wire, P)
      <4>1. Occurrences(wire', P) = Occurrences(wire, P) + 0
        BY <1>4, <3>2 DEF Gained
      <4>2. QED BY ONLY <1>2, <4>1
    <3>3. QED BY <1>7, <3>1, <3>2 DEF Rests
  <2>2. Occurrences(toClient', A) <= Occurrences(toClient, A)
    <3>1. CASE toClient' = toClient
      BY <1>2, <3>1
    <3>2. ASSUME NEW p \in Connack, Lost(toClient, toClient', p)
          PROVE  Occurrences(toClient', A) <= Occurrences(toClient, A)
      <4>1. p \notin A
        BY <1>4 DEF Connack
      <4>2. Occurrences(toClient, A) = Occurrences(toClient', A) + 0
        BY <3>2, <4>1 DEF Lost
      <4>3. QED BY ONLY <1>2, <4>2
    <3>3. CASE Fewer(toClient, toClient')
      BY <3>3 DEF Fewer
    <3>4. QED BY <1>7, <3>1, <3>2, <3>3 DEF Rests
  <2>3. exchanges' = exchanges /\ Room' >= Room
    BY <1>7 DEF Rests
  <2>4. QED BY <1>2, <1>3, <1>6, <2>1, <2>2, <2>3
<1>8. ASSUME NEW m \in Message, Goes(m)
      PROVE  Occurrences(wire', P) + Occurrences(exchanges', D) + Occurrences(toClient', A) <= Room'
  <2>1. toClient' = toClient /\ exchanges' = exchanges /\ Room' >= Room + 1
    BY <1>8 DEF Goes
  <2>2. Occurrences(wire', P) <= Occurrences(wire, P) + 1
    <3>1. CASE wire' = wire
      BY <1>2, <3>1
    <3>2. CASE Gained(wire, wire', PublishPacket(m))
      <4>1. Occurrences(wire', P) = Occurrences(wire, P) + IF PublishPacket(m) \in P THEN 1 ELSE 0
        BY <3>2 DEF Gained
      <4>2. QED BY ONLY <1>2, <4>1
    <3>3. QED BY <1>8, <3>1, <3>2 DEF Goes
  <2>3. QED BY <1>2, <1>3, <1>6, <2>1, <2>2
<1>9. ASSUME NEW p \in Acknowledgement, NEW e \in InFlight, Finishes(p, e)
      PROVE  Occurrences(wire', P) + Occurrences(exchanges', D) + Occurrences(toClient', A) <= Room'
  <2>1. wire' = wire /\ exchanges' = exchanges
    BY <1>9 DEF Finishes
  <2>2. Occurrences(toClient, A) = Occurrences(toClient', A) + IF p \in A THEN 1 ELSE 0
    BY <1>9 DEF Finishes, Lost
  <2>3. CASE p.type = "puback" \/ p.type = "pubrec"
    <3>1. Room' = Room - 1
      BY <1>9, <2>3 DEF Finishes
    <3>2. Occurrences(toClient, A) = Occurrences(toClient', A) + 1
      BY <1>4, <2>2, <2>3
    <3>3. QED BY <1>2, <1>3, <1>6, <2>1, <3>1, <3>2
  <2>4. CASE p.type = "refused" \/ p.type = "pubcomp"
    <3>1. Room' = Room
      BY <1>9, <2>4 DEF Finishes
    <3>2. Occurrences(toClient, A) = Occurrences(toClient', A) + 0
      BY <1>4, <2>2, <2>4
    <3>3. QED BY <1>2, <1>3, <1>6, <2>1, <3>1, <3>2
  <2>5. QED BY <2>3, <2>4 DEF Acknowledgement
<1>10. ASSUME NEW p \in Acknowledgement, NEW e \in InFlight, Releases(p, e)
       PROVE  Occurrences(wire', P) + Occurrences(exchanges', D) + Occurrences(toClient', A) <= Room'
  <2>1. p.type = "pubrec" /\ exchanges' = exchanges /\ Room' = Room
    BY <1>10 DEF Releases
  <2>2. Occurrences(toClient, A) = Occurrences(toClient', A) + 1
    BY <1>4, <1>10, <2>1 DEF Releases, Lost
  <2>3. Occurrences(wire', P) <= Occurrences(wire, P) + 1
    <3>1. CASE wire' = wire
      BY <1>2, <3>1
    <3>2. ASSUME NEW x, Gained(wire, wire', x)
          PROVE  Occurrences(wire', P) <= Occurrences(wire, P) + 1
      <4>1. Occurrences(wire', P) = Occurrences(wire, P) + IF x \in P THEN 1 ELSE 0
        BY <3>2 DEF Gained
      <4>2. QED BY ONLY <1>2, <4>1
    <3>3. QED BY <1>10, <3>1, <3>2 DEF Releases
  <2>4. QED BY <1>2, <1>3, <1>6, <2>1, <2>2, <2>3
<1>11. ASSUME \/ \E p \in Packet : Arrives(p)
              \/ \E x \in Exchange : Answers(x)
       PROVE  Room' = Room
  <2>1. UNCHANGED <<connected, maxQuota, quota, handler, early>>
    BY <1>11 DEF Arrives, Answers
  <2>2. QED BY <2>1 DEF Room, Granted, Returning, Closing
<1>12. ASSUME NEW p \in Packet, Arrives(p)
       PROVE  Occurrences(wire', P) + Occurrences(exchanges', D) + Occurrences(toClient', A) <= Room'
  <2>1. toClient' = toClient /\ Room' = Room
    BY <1>11, <1>12 DEF Arrives
  <2>2. Occurrences(wire, P) = Occurrences(wire', P) + IF p \in P THEN 1 ELSE 0
    BY <1>12 DEF Arrives, Lost
  <2>3. Occurrences(exchanges', D) <= Occurrences(exchanges, D) + IF p \in P THEN 1 ELSE 0
    <3>1. CASE UNCHANGED exchanges
      BY <1>2, <3>1
    <3>2. ASSUME p \in P, NEW x, Gained(exchanges, exchanges', x)
          PROVE  Occurrences(exchanges', D) <= Occurrences(exchanges, D) + IF p \in P THEN 1 ELSE 0
      <4>1. Occurrences(exchanges', D) = Occurrences(exchanges, D) + IF x \in D THEN 1 ELSE 0
        BY <3>2 DEF Gained
      <4>2. QED BY ONLY <1>2, <3>2, <4>1
    <3>3. ASSUME p \in P, NEW x, NEW y, Replaced(exchanges, exchanges', x, y)
          PROVE  Occurrences(exchanges', D) <= Occurrences(exchanges, D) + IF p \in P THEN 1 ELSE 0
      <4>1. Occurrences(exchanges', D) + (IF x \in D THEN 1 ELSE 0) = Occurrences(exchanges, D) + IF y \in D THEN 1 ELSE 0
        BY <3>3 DEF Replaced
      <4>2. QED BY ONLY <1>2, <3>3, <4>1
    <3>4. \/ UNCHANGED exchanges
          \/ p \in P /\ \E x : Gained(exchanges, exchanges', x)
          \/ p \in P /\ \E x, y : Replaced(exchanges, exchanges', x, y)
      BY <1>4, <1>12 DEF Arrives
    <3>5. QED BY <3>1, <3>2, <3>3, <3>4
  <2>4. QED BY <1>2, <1>3, <1>6, <2>1, <2>2, <2>3
<1>13. ASSUME NEW x \in Exchange, Answers(x)
       PROVE  Occurrences(wire', P) + Occurrences(exchanges', D) + Occurrences(toClient', A) <= Room'
  <2>1. wire' = wire /\ Room' = Room
    BY <1>11, <1>13 DEF Answers
  <2>2. x \in D
    BY <1>4, <1>13 DEF Answers
  <2>3. Occurrences(toClient', A) <= Occurrences(toClient, A) + 1
    <3>1. ASSUME NEW y, Gained(toClient, toClient', y)
          PROVE  Occurrences(toClient', A) <= Occurrences(toClient, A) + 1
      <4>1. Occurrences(toClient', A) = Occurrences(toClient, A) + IF y \in A THEN 1 ELSE 0
        BY <3>1 DEF Gained
      <4>2. QED BY ONLY <1>2, <4>1
    <3>2. QED BY <1>13, <3>1 DEF Answers
  <2>4. Occurrences(exchanges, D) = Occurrences(exchanges', D) + 1
    <3>1. CASE Lost(exchanges, exchanges', x)
      BY <2>2, <3>1 DEF Lost
    <3>2. CASE Replaced(exchanges, exchanges', x, [x EXCEPT !.stage = "await_rel"])
      <4>1. [x EXCEPT !.stage = "await_rel"] \notin D
        BY <1>4 DEF Exchange
      <4>2. Occurrences(exchanges', D) + 1 = Occurrences(exchanges, D) + 0
        BY <2>2, <3>2, <4>1 DEF Replaced
      <4>3. QED BY ONLY <1>2, <4>2
    <3>3. QED BY <1>13, <3>1, <3>2 DEF Answers
  <2>5. QED BY <1>2, <1>3, <1>6, <2>1, <2>3, <2>4
<1>14. \/ Rests
       \/ \E m \in Message : Goes(m)
       \/ \E p \in Acknowledgement, e \in InFlight : Finishes(p, e)
       \/ \E p \in Acknowledgement, e \in InFlight : Releases(p, e)
       \/ \E p \in Packet : Arrives(p)
       \/ \E x \in ToSet(exchanges) : x \in Exchange /\ Answers(x)
  BY SessionEvents DEF Situation
<1>15. QED BY <1>7, <1>8, <1>9, <1>10, <1>12, <1>13, <1>14
-----------------------------------------------------------------------------
(* Publishes that never shared their identifier *)

\* A publish that shares its identifier with no other is counted once.
LEMMA EntriesAlone ==
    ASSUME NEW s \in Seq(InFlight), NEW e,
           \A i, j \in 1 .. Len(s) : i # j => s[i].op # s[j].op,
           \A f \in ToSet(s) : f.id = e.id => f.op = e.op
    PROVE  Occurrences(s, EntriesOf(e.id, Both)) <= 1
<1>1. \A i \in 1 .. Len(s) : s[i] \in EntriesOf(e.id, Both) => s[i].op = e.op
  BY ToSetMembers DEF EntriesOf
<1>2. \A i, j \in 1 .. Len(s) :
        s[i] \in EntriesOf(e.id, Both) /\ s[j] \in EntriesOf(e.id, Both) => i = j
  BY <1>1
<1>3. QED BY <1>2, OccurrencesFew

\* Then an answer the server owes for it is the only token: no PUBREL or PUBREC
\* with its identifier is under way.
LEMMA DutyAlone ==
    ASSUME Situation, TokenInv', NEW e \in ToSet(inflight'),
           Occurrences(inflight', EntriesOf(e.id, Both)) <= 1,
           NEW x \in ToSet(exchanges'), x.id = e.id, x.stage # "await_rel"
    PROVE  OwnAwait(e)'
<1> DEFINE P == PacketsOf(e.id, Both)
           D == DutiesOf(e.id, Both)
           A == AcksOf(e.id, Both)
<1>1. e.id \in U16 /\ x \in Exchange
  BY SituationTypes, EntryKinds
<1>2. /\ Occurrences(wire', P) \in Nat /\ Occurrences(exchanges', D) \in Nat
      /\ Occurrences(toClient', A) \in Nat /\ Occurrences(inflight', EntriesOf(e.id, Both)) \in Nat
  BY SituationCounts
<1>3. Occurrences(wire', P) + Occurrences(exchanges', D) + Occurrences(toClient', A) <= 1
  <2>1. Tokens(e.id, Both)' <= Entries(e.id, Both)'
    BY <1>1 DEF TokenInv
  <2>2. Occurrences(wire', P) + Occurrences(exchanges', D) + Occurrences(toClient', A)
        <= Occurrences(inflight', EntriesOf(e.id, Both))
    BY <2>1, TokenSums
  <2> HIDE DEF P, D, A
  <2>3. QED BY <1>2, <2>2
<1>4. x \in D
  BY <1>1, DutyKinds DEF Both
<1>5. \A p : /\ p \in PubrelsOf(e.id) => p \in P
             /\ p \in PubrecsOf(e.id) => p \in A
  BY DEF PubrelsOf, PubrecsOf, PacketsOf, AcksOf, QosOfPacket, QosOfAck, Both
<1> HIDE DEF P, D, A
<1>6. Occurrences(exchanges', D) # 0
  BY <1>4, SituationTypes, OccurrencesMember
<1>7. Occurrences(wire', P) = 0 /\ Occurrences(toClient', A) = 0
  BY <1>2, <1>3, <1>6
<1>8. /\ \A p \in ToSet(wire') : p \notin P
      /\ \A p \in ToSet(toClient') : p \notin A
  BY <1>7, SituationTypes, OccurrencesMember
<1>9. QED BY <1>5, <1>8 DEF OwnAwait

\* What is said of a publish depends on its number, identifier and quality only.
LEMMA OwnSame ==
    ASSUME NEW e, NEW f, e.op = f.op, e.id = f.id, e.qos = f.qos, Own(f)
    PROVE  Own(e)
<1>1. OwnPackets(f) /\ OwnAcks(f) /\ (open => OwnDuties(f) /\ OwnAwait(f))
  BY DEF Own
<1>2. OwnPackets(e) /\ OwnAcks(e)
  BY <1>1 DEF OwnPackets, OwnAcks
<1>3. (OwnDuties(f) => OwnDuties(e)) /\ (OwnAwait(f) => OwnAwait(e))
  BY DEF OwnDuties, OwnAwait
<1>4. QED BY <1>1, <1>2, <1>3 DEF Own

\* Fewer tokens of the same exchanges.
LEMMA OwnRests ==
    ASSUME Situation, NEW e \in InFlight, Own(e), Rests
    PROVE  Own(e)'
<1>1. /\ exchanges' = exchanges /\ (open' => open)
      /\ ToSet(toClient') \subseteq ToSet(toClient)
  BY DEF Rests, Steady, Lost, Fewer
<1>2. \A p \in ToSet(wire') : p \in ToSet(wire) \/ (p.type = "publish" /\ p.qos = 0)
  <2>1. \/ wire' = wire
        \/ \E p \in Packet : p.type = "publish" /\ p.qos = 0 /\ Gained(wire, wire', p)
    BY DEF Rests
  <2>2. QED BY <2>1 DEF Gained
<1>3. OwnPackets(e)'
  BY <1>2 DEF Own, OwnPackets
<1>4. OwnAcks(e)'
  BY <1>1 DEF Own, OwnAcks
<1>5. open' => OwnDuties(e)'
  BY <1>1 DEF Own, OwnDuties
<1>6. ASSUME open' PROVE OwnAwait(e)'
  <2>1. OwnAwait(e)
    BY <1>1, <1>6 DEF Own
  <2>2. \A p \in ToSet(wire') : p \in PubrelsOf(e.id) => p \in ToSet(wire)
    BY <1>2 DEF PubrelsOf
  <2>3. QED BY <1>1, <2>1, <2>2 DEF OwnAwait
<1>7. QED BY <1>3, <1>4, <1>5, <1>6 DEF Own

\* Another publish is sent.
LEMMA OwnGoes ==
    ASSUME Situation, NEW e \in InFlight, Own(e), NEW m \in Message, Goes(m), m.id # e.id
    PROVE  Own(e)'
<1>1. exchanges' = exchanges /\ toClient' = toClient /\ (open' => open)
  BY DEF Goes, Steady
<1>2. \A p \in ToSet(wire') : p \in ToSet(wire) \/ p = PublishPacket(m)
  BY DEF Goes, Gained
<1>3. PublishPacket(m).id = m.id /\ PublishPacket(m).type = "publish"
  BY PublishPackets
<1>4. OwnPackets(e)'
  BY <1>2, <1>3 DEF Own, OwnPackets
<1>5. OwnAcks(e)' /\ (open' => OwnDuties(e)')
  BY <1>1 DEF Own, OwnAcks, OwnDuties
<1>6. ASSUME open' PROVE OwnAwait(e)'
  <2>1. OwnAwait(e)
    BY <1>1, <1>6 DEF Own
  <2>2. \A p \in ToSet(wire') : p \in PubrelsOf(e.id) => p \in ToSet(wire)
    BY <1>2, <1>3 DEF PubrelsOf
  <2>3. QED BY <1>1, <2>1, <2>2 DEF OwnAwait
<1>7. QED BY <1>4, <1>5, <1>6 DEF Own

\* The publish itself is sent: nothing is left of an older one with its identifier.
LEMMA OwnEntrance ==
    ASSUME Situation, TokenInv, AwaitInv, NEW m \in Message, Goes(m),
           \A f \in ToSet(inflight) : f.id # m.id
    PROVE  Own(Flying(m))'
<1> DEFINE e == Flying(m)
<1>1. /\ exchanges' = exchanges /\ toClient' = toClient /\ (open' => open)
      /\ TypeOK /\ SessionTypeOK
  BY SituationTypes DEF Goes, Steady
<1>2. \A p \in ToSet(wire') : p \in ToSet(wire) \/ p = PublishPacket(m)
  BY DEF Goes, Gained
<1>3. /\ PublishPacket(m).id = m.id /\ PublishPacket(m).type = "publish" /\ m.id \in U16
      /\ PublishPacket(m).op = m.op /\ PublishPacket(m).qos = m.qos
  BY PublishPackets
<1>4. e.id = m.id /\ e.op = m.op /\ e.qos = m.qos
  BY Entrance
<1> HIDE DEF e
<1>5. ~ \E f \in ToSet(inflight) : f \in EntriesOf(m.id, Both)
  BY DEF EntriesOf
<1>6. Tokens(m.id, Both) <= Entries(m.id, Both)
  BY <1>3 DEF TokenInv
<1>7. /\ \A p \in ToSet(wire) : p \notin PacketsOf(m.id, Both)
      /\ \A x \in ToSet(exchanges) : x \notin DutiesOf(m.id, Both)
      /\ \A p \in ToSet(toClient) : p \notin AcksOf(m.id, Both)
  BY <1>1, <1>3, <1>5, <1>6, TokenFor
<1>8. ASSUME NEW p \in ToSet(wire), p.id = m.id PROVE p.type = "publish" /\ p.qos = 0
  <2>1. p \in Packet
    BY <1>8, SituationTypes
  <2>2. p.type \in {"publish", "pubrel"} /\ (p.type = "publish" => p.qos \in {0, 1, 2})
    BY <2>1, PacketKinds, QosAssumption
  <2>3. QED BY <1>7, <1>8, <2>1, <2>2, PacketKinds DEF Both
<1>9. ASSUME NEW p \in ToSet(toClient), p.type # "connack" PROVE p.id # m.id
  <2>1. p \in ServerPacket
    BY <1>9, SituationTypes
  <2>2. QED BY <1>7, <1>9, <2>1, AckKinds DEF Both
<1>10. ASSUME open PROVE \A x \in ToSet(exchanges) : x.id # m.id
  <2>1. PICK y \in U16 : AwaitInvFor(y)
    BY <1>10 DEF AwaitInv
  <2>2. Awaiting(m.id) <= Coming(m.id) + IF m.id = y THEN Closing ELSE 0
    BY <1>3, <2>1 DEF AwaitInvFor
  <2>3. (IF m.id = y THEN Closing ELSE 0) = 0
    BY <2>1 DEF AwaitInvFor, Closing
  <2>4. Occurrences(wire, PubrelsOf(m.id)) = 0
    <3>1. \A p \in ToSet(wire) : p \notin PubrelsOf(m.id)
      BY <1>8 DEF PubrelsOf
    <3>2. QED BY <3>1, SituationTypes, OccurrencesMember
  <2>5. Occurrences(toClient, PubrecsOf(m.id)) = 0
    <3>1. \A p \in ToSet(toClient) : p \notin PubrecsOf(m.id)
      BY <1>9 DEF PubrecsOf
    <3>2. QED BY <3>1, SituationTypes, OccurrencesMember
  <2>6. Awaiting(m.id) = 0
    <3>1. Coming(m.id) = 0
      BY <2>4, <2>5 DEF Coming
    <3>2. Awaiting(m.id) \in Nat
      BY AwaitSums
    <3>3. QED BY <2>2, <2>3, <3>1, <3>2
  <2>7. \A x \in ToSet(exchanges) : x \notin AwaitsOf(m.id)
    BY <2>6, SituationTypes, OccurrencesMember DEF Awaiting
  <2>8. \A x \in ToSet(exchanges) : x \in Exchange
    BY SituationTypes
  <2>9. QED BY <1>7, <2>7, <2>8, DutyKinds DEF Both
<1>11. OwnPackets(e)'
  BY <1>2, <1>3, <1>4, <1>8 DEF OwnPackets
<1>12. OwnAcks(e)'
  BY <1>1, <1>4, <1>9 DEF OwnAcks
<1>13. open' => OwnDuties(e)'
  BY <1>1, <1>4, <1>10 DEF OwnDuties
<1>14. OwnAwait(e)'
  <2>1. \A p \in ToSet(wire') : p \notin PubrelsOf(e.id)
    BY <1>2, <1>3, <1>4, <1>8 DEF PubrelsOf
  <2>2. \A p \in ToSet(toClient') : p \notin PubrecsOf(e.id)
    BY <1>1, <1>4, <1>9 DEF PubrecsOf
  <2>3. QED BY <2>1, <2>2 DEF OwnAwait
<1>15. Own(e)'
  BY <1>11, <1>12, <1>13, <1>14 DEF Own
<1>16. QED BY <1>15 DEF e

\* An acknowledgement is taken.
LEMMA OwnFinishes ==
    ASSUME Situation, NEW e \in InFlight, Own(e), NEW p \in Acknowledgement, NEW f \in InFlight,
           Finishes(p, f)
    PROVE  Own(e)'
<1>1. /\ wire' = wire /\ exchanges' = exchanges /\ open' = open
      /\ ToSet(toClient') \subseteq ToSet(toClient)
  BY DEF Finishes, Lost
<1>2. OwnPackets(e)' /\ OwnAcks(e)' /\ (open' => OwnDuties(e)')
  BY <1>1 DEF Own, OwnPackets, OwnAcks, OwnDuties
<1>3. open' => OwnAwait(e)'
  BY <1>1 DEF Own, OwnAwait
<1>4. QED BY <1>2, <1>3 DEF Own

\* A publish is released.
LEMMA OwnReleases ==
    ASSUME Situation, NEW e \in InFlight, Own(e), NEW p \in Acknowledgement, NEW f \in InFlight,
           Releases(p, f)
    PROVE  Own(e)'
<1>1. /\ exchanges' = exchanges /\ open' = open
      /\ ToSet(toClient') \subseteq ToSet(toClient) /\ p \in ToSet(toClient)
      /\ p.type = "pubrec" /\ p.id \in U16
  BY DEF Releases, Lost, Acknowledgement
<1> DEFINE r == PubrelPacket(p.id, TRUE)
<1>2. r.type = "pubrel" /\ r.id = p.id
  BY <1>1, PubrelPackets
<1> HIDE DEF r
<1>3. \A q \in ToSet(wire') : q \in ToSet(wire) \/ q = r
  <2>1. Gained(wire, wire', r) \/ wire' = wire
    BY DEF Releases, r
  <2>2. QED BY <2>1 DEF Gained
<1>4. p.id = e.id => e.qos = 2
  <2>1. p.id = e.id => e.qos # 1
    BY <1>1 DEF Own, OwnAcks
  <2>2. QED BY <2>1, EntryKinds DEF Both
<1>5. OwnPackets(e)'
  BY <1>2, <1>3, <1>4 DEF Own, OwnPackets
<1>6. OwnAcks(e)' /\ (open' => OwnDuties(e)')
  BY <1>1 DEF Own, OwnAcks, OwnDuties
<1>7. ASSUME open' PROVE OwnAwait(e)'
  <2>1. OwnAwait(e)
    BY <1>1, <1>7 DEF Own
  <2>2. r.id = e.id => p \in PubrecsOf(e.id)
    BY <1>1, <1>2 DEF PubrecsOf
  <2>3. \A q \in ToSet(wire') : q \in PubrelsOf(e.id) => q \in ToSet(wire) \/ r.id = e.id
    BY <1>3 DEF PubrelsOf
  <2>4. QED BY <1>1, <2>1, <2>2, <2>3 DEF OwnAwait
<1>8. QED BY <1>5, <1>6, <1>7 DEF Own

\* The server receives a packet: an exchange with the identifier of the publish
\* is its own, and one that is opened or goes on is a duty.
LEMMA OwnArrives ==
    ASSUME Situation, TokenInv', NEW e \in ToSet(inflight'), e \in InFlight,
           Occurrences(inflight', EntriesOf(e.id, Both)) <= 1, Own(e), NEW p \in Packet, Arrives(p)
    PROVE  Own(e)'
<1>1. /\ toClient' = toClient /\ open' = open /\ open
      /\ p \in ToSet(wire) /\ ToSet(wire') \subseteq ToSet(wire)
  BY DEF Arrives, Lost
<1>2. OwnPackets(e) /\ OwnAcks(e) /\ OwnDuties(e) /\ OwnAwait(e)
  BY <1>1 DEF Own
<1>3. OwnPackets(e)' /\ OwnAcks(e)'
  BY <1>1, <1>2 DEF OwnPackets, OwnAcks
<1>4. e.qos \in {1, 2}
  BY EntryKinds DEF Both
<1>5. p.id = e.id => /\ p.type = "publish" /\ p.qos # 0 => p.op = e.op /\ p.qos = e.qos
                     /\ p.type = "pubrel" => e.qos = 2
  BY <1>1, <1>2 DEF OwnPackets
<1>6. \A x \in ToSet(exchanges) : x.id = e.id => x.op = e.op /\ (x.stage = "ack_due" <=> e.qos = 1)
  BY <1>2 DEF OwnDuties
<1>7. ASSUME p.id # e.id,
             NEW x, x.id = p.id, ToSet(exchanges') \subseteq ToSet(exchanges) \cup {x},
             \A y \in ToSet(exchanges) : y.id = e.id => y \in ToSet(exchanges')
      PROVE  OwnDuties(e)' /\ OwnAwait(e)'
  <2>1. OwnDuties(e)'
    BY <1>6, <1>7 DEF OwnDuties
  <2>2. \A y \in AwaitsOf(e.id) : y.id = e.id
    BY DEF AwaitsOf
  <2>3. OwnAwait(e)'
    BY <1>1, <1>2, <1>7, <2>2 DEF OwnAwait
  <2>4. QED BY <2>1, <2>3
<1>8. ASSUME p.id = e.id,
             NEW x, x \in ToSet(exchanges'), ToSet(exchanges') \subseteq ToSet(exchanges) \cup {x},
             x.id = e.id, x.op = e.op, x.stage \in {"ack_due", "rec_due", "comp_due"},
             x.stage = "ack_due" <=> e.qos = 1
      PROVE  OwnDuties(e)' /\ OwnAwait(e)'
  <2>1. OwnDuties(e)'
    BY <1>6, <1>8 DEF OwnDuties
  <2>2. x.stage # "await_rel"
    BY <1>8
  <2>3. OwnAwait(e)'
    BY <1>8, <2>2, DutyAlone
  <2>4. QED BY <2>1, <2>3
<1>9. CASE UNCHANGED exchanges
  <2>1. OwnDuties(e)'
    BY <1>6, <1>9 DEF OwnDuties
  <2>2. OwnAwait(e)'
    BY <1>1, <1>2, <1>9 DEF OwnAwait
  <2>3. QED BY <1>3, <2>1, <2>2 DEF Own
<1>10. ASSUME NEW x, Gained(exchanges, exchanges', x), x.id = p.id,
              x.stage \in {"ack_due", "rec_due", "comp_due"},
              p.id = e.id => x.op = e.op /\ (x.stage = "ack_due" <=> e.qos = 1)
       PROVE  Own(e)'
  <2>1. ToSet(exchanges') = ToSet(exchanges) \cup {x}
    BY <1>10 DEF Gained
  <2>2. CASE p.id = e.id
    <3>1. /\ x \in ToSet(exchanges') /\ ToSet(exchanges') \subseteq ToSet(exchanges) \cup {x}
          /\ x.id = e.id /\ x.op = e.op /\ (x.stage = "ack_due" <=> e.qos = 1)
      BY <1>10, <2>1, <2>2
    <3>2. OwnDuties(e)' /\ OwnAwait(e)'
      BY <1>8, <1>10, <2>2, <3>1
    <3>3. QED BY <1>3, <3>2 DEF Own
  <2>3. CASE p.id # e.id
    <3>1. OwnDuties(e)' /\ OwnAwait(e)'
      BY <1>7, <1>10, <2>1, <2>3
    <3>2. QED BY <1>3, <3>1 DEF Own
  <2>4. QED BY <2>2, <2>3
<1>11. ASSUME NEW x \in AwaitsOf(p.id), NEW stage \in {"rec_due", "comp_due"},
              Replaced(exchanges, exchanges', x, [x EXCEPT !.stage = stage]),
              p.id = e.id => e.qos = 2
       PROVE  Own(e)'
  <2> DEFINE y == [x EXCEPT !.stage = stage]
  <2>1. x \in Exchange /\ x.id = p.id
    BY DEF AwaitsOf
  <2>2. y.id = p.id /\ y.op = x.op /\ y.stage = stage
    BY <2>1 DEF Exchange
  <2> HIDE DEF y
  <2>3. Replaced(exchanges, exchanges', x, y)
    BY <1>11 DEF y
  <2>4. /\ x \in ToSet(exchanges) /\ y \in ToSet(exchanges')
        /\ ToSet(exchanges') \subseteq ToSet(exchanges) \cup {y}
        /\ ToSet(exchanges) \subseteq ToSet(exchanges') \cup {x}
    BY <2>3 DEF Replaced
  <2>5. CASE p.id = e.id
    <3>1. x.op = e.op
      BY <1>6, <2>1, <2>4, <2>5
    <3>2. /\ y.id = e.id /\ y.op = e.op /\ y.stage \in {"ack_due", "rec_due", "comp_due"}
          /\ (y.stage = "ack_due" <=> e.qos = 1)
      BY <1>11, <2>2, <2>5, <3>1
    <3>3. OwnDuties(e)' /\ OwnAwait(e)'
      BY <1>8, <2>4, <2>5, <3>2
    <3>4. QED BY <1>3, <3>3 DEF Own
  <2>6. CASE p.id # e.id
    <3>1. \A z \in ToSet(exchanges) : z.id = e.id => z \in ToSet(exchanges')
      BY <2>1, <2>4, <2>6
    <3>2. OwnDuties(e)' /\ OwnAwait(e)'
      BY <1>7, <2>2, <2>4, <2>6, <3>1
    <3>3. QED BY <1>3, <3>2 DEF Own
  <2>7. QED BY <2>5, <2>6
<1>12. CASE p.type = "publish" /\ p.qos = 1
            /\ Gained(exchanges, exchanges', [op |-> p.op, id |-> p.id, stage |-> "ack_due"])
  <2> DEFINE x == [op |-> p.op, id |-> p.id, stage |-> "ack_due"]
  <2>1. /\ x.id = p.id /\ x.stage \in {"ack_due", "rec_due", "comp_due"}
        /\ p.id = e.id => x.op = e.op /\ (x.stage = "ack_due" <=> e.qos = 1)
    BY <1>5, <1>12
  <2>2. Gained(exchanges, exchanges', x)
    BY <1>12
  <2> HIDE DEF x
  <2>3. QED BY <1>10, <2>1, <2>2
<1>13. CASE p.type = "publish" /\ p.qos = 2
            /\ Gained(exchanges, exchanges', [op |-> p.op, id |-> p.id, stage |-> "rec_due"])
  <2> DEFINE x == [op |-> p.op, id |-> p.id, stage |-> "rec_due"]
  <2>1. /\ x.id = p.id /\ x.stage \in {"ack_due", "rec_due", "comp_due"}
        /\ p.id = e.id => x.op = e.op /\ (x.stage = "ack_due" <=> e.qos = 1)
    BY <1>5, <1>13
  <2>2. Gained(exchanges, exchanges', x)
    BY <1>13
  <2> HIDE DEF x
  <2>3. QED BY <1>10, <2>1, <2>2
<1>14. CASE /\ p.type = "pubrel" /\ (\A x \in ToSet(exchanges) : x \notin AwaitsOf(p.id))
            /\ Gained(exchanges, exchanges', [op |-> 0, id |-> p.id, stage |-> "comp_due"])
  <2> DEFINE x == [op |-> 0, id |-> p.id, stage |-> "comp_due"]
  <2>1. p.id # e.id
    <3>1. p.id = e.id => p \in PubrelsOf(e.id)
      BY <1>14 DEF PubrelsOf
    <3>2. QED BY <1>1, <1>2, <1>14, <3>1 DEF OwnAwait
  <2>2. /\ x.id = p.id /\ x.stage \in {"ack_due", "rec_due", "comp_due"}
        /\ p.id = e.id => x.op = e.op /\ (x.stage = "ack_due" <=> e.qos = 1)
    BY <2>1
  <2>3. Gained(exchanges, exchanges', x)
    BY <1>14
  <2> HIDE DEF x
  <2>4. QED BY <1>10, <2>2, <2>3
<1>15. CASE \E x \in AwaitsOf(p.id) :
              \/ p.type = "publish" /\ p.qos = 2
                 /\ Replaced(exchanges, exchanges', x, [x EXCEPT !.stage = "rec_due"])
              \/ p.type = "pubrel"
                 /\ Replaced(exchanges, exchanges', x, [x EXCEPT !.stage = "comp_due"])
  BY <1>5, <1>11, <1>15
<1>16. QED BY <1>9, <1>12, <1>13, <1>14, <1>15 DEF Arrives

\* The server does a duty.
LEMMA OwnAnswers ==
    ASSUME Situation, NEW e \in InFlight, Own(e), NEW x \in Exchange, x \in ToSet(exchanges), Answers(x)
    PROVE  Own(e)'
<1>1. wire' = wire /\ open' = open /\ open
  BY DEF Answers
<1>2. OwnPackets(e) /\ OwnAcks(e) /\ OwnDuties(e) /\ OwnAwait(e)
  BY <1>1 DEF Own
<1>3. OwnPackets(e)'
  BY <1>1, <1>2 DEF OwnPackets
<1>4. x.id = e.id => x.op = e.op /\ (x.stage = "ack_due" <=> e.qos = 1)
  BY <1>2 DEF OwnDuties
<1>5. PICK type \in {"puback", "pubrec", "refused", "pubcomp"} :
        /\ Gained(toClient, toClient', Ack(type, x))
        /\ x.stage # "await_rel" /\ (type = "puback" <=> x.stage = "ack_due")
        /\ \/ type # "pubrec" /\ Lost(exchanges, exchanges', x)
           \/ Replaced(exchanges, exchanges', x, [x EXCEPT !.stage = "await_rel"])
              /\ x.stage = "rec_due"
  BY DEF Answers
<1> DEFINE a == Ack(type, x)
<1>6. a.type = type /\ a.id = x.id /\ a.op = x.op
  BY DutyKinds
<1>7. ToSet(toClient') = ToSet(toClient) \cup {a}
  BY <1>5 DEF Gained
<1> HIDE DEF a
<1>8. OwnAcks(e)'
  BY <1>2, <1>4, <1>5, <1>6, <1>7 DEF OwnAcks
<1>9. CASE type # "pubrec" /\ Lost(exchanges, exchanges', x)
  <2>1. ToSet(exchanges) = ToSet(exchanges') \cup {x}
    BY <1>9 DEF Lost
  <2>2. OwnDuties(e)'
    BY <1>2, <2>1 DEF OwnDuties
  <2>3. x \notin AwaitsOf(e.id) /\ a \notin PubrecsOf(e.id)
    BY <1>5, <1>6, <1>9 DEF AwaitsOf, PubrecsOf
  <2>4. OwnAwait(e)'
    BY <1>1, <1>2, <1>7, <2>1, <2>3 DEF OwnAwait
  <2>5. QED BY <1>3, <1>8, <2>2, <2>4 DEF Own
<1>10. CASE x.stage = "rec_due" /\ Replaced(exchanges, exchanges', x, [x EXCEPT !.stage = "await_rel"])
  <2> DEFINE y == [x EXCEPT !.stage = "await_rel"]
  <2>1. y \in Exchange /\ y.id = x.id /\ y.op = x.op /\ y.stage = "await_rel"
    BY DEF Exchange, Stages
  <2>2. Replaced(exchanges, exchanges', x, y)
    BY <1>10
  <2> HIDE DEF y
  <2>3. /\ y \in ToSet(exchanges')
        /\ ToSet(exchanges') \subseteq ToSet(exchanges) \cup {y}
        /\ ToSet(exchanges) \subseteq ToSet(exchanges') \cup {x}
    BY <2>2 DEF Replaced
  <2>4. OwnDuties(e)'
    BY <1>2, <1>4, <1>10, <2>1, <2>3 DEF OwnDuties
  <2>5. x \notin AwaitsOf(e.id) /\ (x.id = e.id => y \in AwaitsOf(e.id))
    BY <1>10, <2>1 DEF AwaitsOf
  <2>6. a \in PubrecsOf(e.id) => x.id = e.id
    BY <1>6 DEF PubrecsOf
  <2>7. OwnAwait(e)'
    BY <1>1, <1>2, <1>7, <2>3, <2>5, <2>6 DEF OwnAwait
  <2>8. QED BY <1>3, <1>8, <2>4, <2>7 DEF Own
<1>11. QED BY <1>5, <1>9, <1>10

LEMMA OwnStep ==
    ASSUME Situation, SharedInv, TokenInv, AwaitInv, OwnInv, [SessionNext]_sessionVars
    PROVE  OwnInv'
<1>1. SUFFICES ASSUME NEW e \in ToSet(inflight'), e.op \notin shared'
               PROVE  Own(e)'
  BY DEF OwnInv
<1>2. SharedInv' /\ shared \subseteq shared' /\ TokenInv'
  BY SharedStep, TokenStep
<1>3. e \in InFlight
  BY SituationTypes
<1>4. \A f \in ToSet(inflight') : f.id = e.id => f.op = e.op
  BY <1>1, <1>2 DEF SharedInv
<1>5. Occurrences(inflight', EntriesOf(e.id, Both)) <= 1
  <2>1. IInv'
    BY SessionStep, StepIInv DEF Situation
  <2>2. \A i, j \in 1 .. Len(inflight') : i # j => inflight'[i].op # inflight'[j].op
    BY <2>1 DEF IInv, HeldInv
  <2>3. inflight' \in Seq(InFlight)
    BY SituationTypes
  <2>4. QED BY <1>4, <2>2, <2>3, EntriesAlone
<1>6. ASSUME NEW f \in ToSet(inflight), f.op = e.op, f.id = e.id, f.qos = e.qos
      PROVE  Own(e)
  <2>1. Own(f)
    BY <1>1, <1>2, <1>6 DEF OwnInv
  <2>2. QED BY <1>6, <2>1, OwnSame
<1>7. CASE Rests
  <2>1. Own(e)
    BY <1>1, <1>6, <1>7 DEF Rests
  <2>2. QED BY <1>3, <1>7, <2>1, OwnRests
<1>8. ASSUME NEW m \in Message, Goes(m) PROVE Own(e)'
  <2>1. /\ ToSet(inflight') = ToSet(inflight) \cup {Flying(m)}
        /\ \A f \in ToSet(inflight) : f.op # m.op
    BY <1>8 DEF Goes, Gained
  <2>2. Flying(m).op = m.op /\ Flying(m).id = m.id
    BY Entrance
  <2>3. CASE e \in ToSet(inflight)
    <3>1. Own(e)
      BY <1>6, <2>3
    <3>2. m.id # e.id
      BY <1>4, <2>1, <2>2, <2>3
    <3>3. QED BY <1>3, <1>8, <3>1, <3>2, OwnGoes
  <2>4. CASE e = Flying(m)
    <3>1. \A f \in ToSet(inflight) : f.id # m.id
      BY <1>4, <2>1, <2>2, <2>4
    <3>2. Own(Flying(m))'
      BY <1>8, <3>1, OwnEntrance
    <3>3. QED BY <2>4, <3>2
  <2>5. QED BY <2>1, <2>3, <2>4
<1>9. ASSUME NEW p \in Acknowledgement, NEW f \in InFlight, Finishes(p, f) PROVE Own(e)'
  <2>1. e \in ToSet(inflight)
    BY <1>9 DEF Finishes, Lost
  <2>2. Own(e)
    BY <1>6, <2>1
  <2>3. QED BY <1>3, <1>9, <2>2, OwnFinishes
<1>10. ASSUME NEW p \in Acknowledgement, NEW f \in InFlight, Releases(p, f) PROVE Own(e)'
  <2> DEFINE g == [f EXCEPT !.state = "waiting_pubcomp"]
  <2>1. g.op = f.op /\ g.id = f.id /\ g.qos = f.qos
    BY EntryKinds
  <2>2. Replaced(inflight, inflight', f, g)
    BY <1>10 DEF Releases
  <2> HIDE DEF g
  <2>3. f \in ToSet(inflight) /\ (e \in ToSet(inflight) \/ e = g)
    BY <2>2 DEF Replaced
  <2>4. Own(e)
    BY <1>6, <2>1, <2>3
  <2>5. QED BY <1>3, <1>10, <2>4, OwnReleases
<1>11. ASSUME NEW p \in Packet, Arrives(p) PROVE Own(e)'
  <2>1. e \in ToSet(inflight)
    BY <1>11 DEF Arrives
  <2>2. Own(e)
    BY <1>6, <2>1
  <2>3. QED BY <1>2, <1>3, <1>5, <1>11, <2>2, OwnArrives
<1>12. ASSUME NEW x \in Exchange, x \in ToSet(exchanges), Answers(x) PROVE Own(e)'
  <2>1. e \in ToSet(inflight)
    BY <1>12 DEF Answers
  <2>2. Own(e)
    BY <1>6, <2>1
  <2>3. QED BY <1>3, <1>12, <2>2, OwnAnswers
<1>13. \/ Rests
       \/ \E m \in Message : Goes(m)
       \/ \E p \in Acknowledgement, f \in InFlight : Finishes(p, f)
       \/ \E p \in Acknowledgement, f \in InFlight : Releases(p, f)
       \/ \E p \in Packet : Arrives(p)
       \/ \E x \in ToSet(exchanges) : x \in Exchange /\ Answers(x)
  BY SessionEvents DEF Situation
<1>14. QED BY <1>7, <1>8, <1>9, <1>10, <1>11, <1>12, <1>13

\* Which publishes a step tells their fate, and which fate.
LEMMA FateStep ==
    ASSUME Situation, SharedInv, TokenInv, OwnInv, [SessionNext]_sessionVars,
           NEW n \in DOMAIN outcome', n \notin shared
    PROVE  \/ n \in DOMAIN outcome /\ outcome'[n] = outcome[n]
           \/ n \notin DOMAIN outcome /\ outcome'[n] = "pending"
           \/ n \in DOMAIN outcome /\ toClient # <<>> /\ Head(toClient).op = n /\ outcome'[n] # "done"
<1>1. CASE NoFate
  BY <1>1 DEF NoFate
<1>2. ASSUME NEW p \in Acknowledgement, NEW e \in InFlight, Finishes(p, e)
      PROVE  \/ n \in DOMAIN outcome /\ outcome'[n] = outcome[n]
             \/ n \in DOMAIN outcome /\ toClient # <<>> /\ Head(toClient).op = n /\ outcome'[n] # "done"
  <2>1. PICK o \in Outcomes \ {"pending"} :
          /\ outcome' = [outcome EXCEPT ![e.op] = o]
          /\ \/ p.type = "puback" /\ e.state = "waiting_puback" /\ o # "done"
             \/ p.type = "puback" /\ e.state # "waiting_puback"
             \/ p.type = "pubrec" /\ e.state = "waiting_puback"
             \/ o # "done"
    BY <1>2 DEF Finishes
  <2>2. /\ toClient # <<>> /\ p = Head(toClient) /\ e \in ToSet(inflight) /\ e.id = p.id
        /\ p \in ToSet(toClient) /\ p.type # "connack"
    BY <1>2 DEF Finishes, Lost, Acknowledgement
  <2>3. DOMAIN outcome' = DOMAIN outcome
    BY <2>1
  <2>4. CASE n # e.op
    BY <2>1, <2>3, <2>4
  <2>5. CASE n = e.op
    <3>1. OwnAcks(e)
      BY <2>2, <2>5 DEF OwnInv, Own
    <3>2. p.op = e.op /\ (p.type = "puback" <=> e.qos = 1)
      BY <2>2, <3>1 DEF OwnAcks
    <3>3. e.state = "waiting_puback" <=> e.qos = 1
      BY <2>2 DEF SharedInv
    <3>4. o # "done"
      BY <2>1, <3>2, <3>3
    <3>5. outcome'[n] = o
      BY <2>1, <2>3, <2>5
    <3>6. QED BY <2>2, <2>3, <2>5, <3>2, <3>4, <3>5
  <2>6. QED BY <2>4, <2>5
<1>3. \/ NoFate \/ outcome' = outcome
      \/ \E p \in Acknowledgement, e \in InFlight : Finishes(p, e)
  <2>1. \/ Rests
        \/ \E m \in Message : Goes(m)
        \/ \E p \in Acknowledgement, e \in InFlight : Finishes(p, e)
        \/ \E p \in Acknowledgement, e \in InFlight : Releases(p, e)
        \/ \E p \in Packet : Arrives(p)
        \/ \E x \in ToSet(exchanges) : x \in Exchange /\ Answers(x)
    BY SessionEvents DEF Situation
  <2>2. QED BY <2>1 DEF Rests, Goes, Releases, Arrives, Answers
<1>4. CASE outcome' = outcome
  BY <1>4
<1>5. QED BY <1>1, <1>2, <1>3, <1>4
-----------------------------------------------------------------------------
(* The server's window *)

\* What of a sequence lies in one set, and what in a larger one.
LEMMA OccurrencesMonotonic ==
    ASSUME NEW S, NEW s \in Seq(S), NEW T, NEW U, \A x \in S : x \in T => x \in U
    PROVE  Occurrences(s, T) <= Occurrences(s, U)
<1> DEFINE A == {i \in 1 .. Len(s) : s[i] \in T}
           B == {i \in 1 .. Len(s) : s[i] \in U}
<1>1. \A i \in 1 .. Len(s) : s[i] \in S
  BY ElementOfSeq
<1>2. A \subseteq B
  BY <1>1
<1>3. IsFiniteSet(B)
  BY OccurrencesFinite
<1>4. Cardinality(A) <= Cardinality(B)
  BY <1>2, <1>3, FS_Subset
<1>5. QED BY <1>4 DEF Occurrences

\* No more exchanges await a PUBREL than PUBRELs and PUBRECs are under way, and
\* the one that a PUBREC of the wrong kind was taken for.
LEMMA AwaitTotal ==
    ASSUME TypeOK, SessionTypeOK, AwaitInv, open
    PROVE  Occurrences(exchanges, UNION {AwaitsOf(id) : id \in U16})
           <= Occurrences(wire, LoadPackets) + Occurrences(toClient, LoadAcks) + Closing
<1>1. PICK x \in U16 : AwaitInvFor(x)
  BY DEF AwaitInv
<1>2. wire \in Seq(Packet) /\ toClient \in Seq(ServerPacket) /\ exchanges \in Seq(Exchange)
  BY DEF TypeOK, SessionTypeOK
<1> DEFINE r == PubrelPacket(x, TRUE)
           w == IF Closing = 1 THEN Append(wire, r) ELSE wire
           R == Packet \cup ServerPacket
           u == w \o toClient
           a == [id \in U16 |-> AwaitsOf(id)]
           b == [id \in U16 |-> PubrelsOf(id) \cup PubrecsOf(id)]
           B == UNION {b[id] : id \in U16}
<1>3. r \in Packet /\ r.type = "pubrel" /\ r.id = x
  BY PubrelPackets
<1> HIDE DEF r
<1>4. Closing \in {0, 1}
  BY DEF Closing
<1>5. w \in Seq(Packet)
  BY <1>2, <1>3, Moves
<1>6. \A T : Occurrences(w, T) = Occurrences(wire, T) + IF r \in T THEN Closing ELSE 0
  <2>1. \A T : Occurrences(wire, T) \in Nat
    BY <1>2, OccurrencesMember
  <2>2. CASE Closing = 1
    BY <1>2, <1>3, <2>2, Moves DEF Gained
  <2>3. CASE Closing = 0
    <3>1. \A T : Occurrences(wire, T) = Occurrences(wire, T) + IF r \in T THEN 0 ELSE 0
      BY <2>1
    <3>2. w = wire
      BY <2>3
    <3>3. QED BY <2>3, <3>1, <3>2
  <2>4. QED BY <1>4, <2>2, <2>3
<1> HIDE DEF w
<1>7. w \in Seq(R) /\ toClient \in Seq(R)
  <2>1. Packet \subseteq R /\ ServerPacket \subseteq R
    OBVIOUS
  <2> HIDE DEF R
  <2>2. QED BY <1>2, <1>5, <2>1, SeqMonotonic
<1>8. u \in Seq(R) /\ \A T : Occurrences(u, T) = Occurrences(w, T) + Occurrences(toClient, T)
  <2> HIDE DEF R
  <2>1. QED BY <1>7, OccurrencesConcat
<1> HIDE DEF u
<1>9. a \in [U16 -> SUBSET Exchange] /\ b \in [U16 -> SUBSET R]
  <2>1. \A id \in U16 : AwaitsOf(id) \subseteq Exchange /\ PubrelsOf(id) \cup PubrecsOf(id) \subseteq R
    BY DEF AwaitsOf, PubrelsOf, PubrecsOf, ServerPacket
  <2> HIDE DEF R
  <2>2. QED BY <2>1
<1>10. \A k, l \in U16 : k # l => b[k] \cap b[l] = {}
  BY DEF PubrelsOf, PubrecsOf
<1>11. ASSUME NEW id \in U16
       PROVE  Occurrences(exchanges, a[id]) <= Occurrences(u, b[id])
  <2>1. Occurrences(exchanges, AwaitsOf(id)) <=
          (Occurrences(wire, PubrelsOf(id)) + Occurrences(toClient, PubrecsOf(id)))
            + IF id = x THEN Closing ELSE 0
    BY <1>1 DEF AwaitInvFor, Awaiting, Coming
  <2>2. r \in PubrelsOf(id) <=> id = x
    BY <1>3 DEF PubrelsOf
  <2>3. Occurrences(w, PubrelsOf(id))
        = Occurrences(wire, PubrelsOf(id)) + IF id = x THEN Closing ELSE 0
    BY <1>6, <2>2
  <2>4. Occurrences(w, PubrelsOf(id)) <= Occurrences(w, b[id])
    BY <1>5, OccurrencesMonotonic
  <2>5. Occurrences(toClient, PubrecsOf(id)) <= Occurrences(toClient, b[id])
    BY <1>2, OccurrencesMonotonic
  <2>6. Occurrences(u, b[id]) = Occurrences(w, b[id]) + Occurrences(toClient, b[id])
    BY <1>8
  <2>7. /\ Occurrences(wire, PubrelsOf(id)) \in Nat /\ Occurrences(toClient, PubrecsOf(id)) \in Nat
        /\ Occurrences(w, PubrelsOf(id)) \in Nat /\ Occurrences(w, b[id]) \in Nat
        /\ Occurrences(toClient, b[id]) \in Nat
    BY <1>2, <1>5, OccurrencesMember
  <2>8. Occurrences(exchanges, AwaitsOf(id)) \in Nat
    BY <1>2, OccurrencesMember
  <2>9. a[id] = AwaitsOf(id)
    OBVIOUS
  <2>10. Occurrences(exchanges, AwaitsOf(id)) <= Occurrences(u, b[id])
    BY ONLY <1>4, <2>1, <2>3, <2>4, <2>5, <2>6, <2>7, <2>8
  <2>11. QED BY <2>9, <2>10
<1>12. Occurrences(exchanges, UNION {a[id] : id \in U16}) <= Occurrences(u, B)
  <2>1. \A id \in U16 : Occurrences(exchanges, a[id]) <= Occurrences(u, b[id])
    BY <1>11
  <2>2. exchanges \in Seq(Exchange) /\ u \in Seq(R)
    BY <1>2, <1>8
  <2> HIDE DEF a, b, R
  <2>3. QED BY ONLY <1>9, <1>10, <2>1, <2>2, OccurrencesByKind DEF B
<1>13. /\ \A p \in Packet : p \in B => p \in LoadPackets
       /\ \A p \in ServerPacket : p \in B => p \in LoadAcks
  <2>1. \A p : p \in B => \E id \in U16 : p \in PubrelsOf(id) \/ p \in PubrecsOf(id)
    OBVIOUS
  <2>2. ASSUME NEW p \in Packet, p \in B PROVE p \in LoadPackets
    <3>1. p.type = "pubrel"
      BY <2>1, <2>2, PacketKinds DEF PubrelsOf, PubrecsOf
    <3>2. QED BY <3>1, PacketKinds
  <2>3. ASSUME NEW p \in ServerPacket, p \in B PROVE p \in LoadAcks
    <3>1. p.type # "pubrel"
      BY DEF ServerPacket, Connack, Acknowledgement
    <3>2. PICK id \in U16 : p \in PubrecsOf(id)
      BY <2>1, <2>3, <3>1 DEF PubrelsOf
    <3>3. QED BY <3>2 DEF PubrecsOf, LoadAcks
  <2>4. QED BY <2>2, <2>3
<1> HIDE DEF B
<1>14. Occurrences(wire, B) <= Occurrences(wire, LoadPackets)
  BY <1>2, <1>13, OccurrencesMonotonic
<1>15. Occurrences(toClient, B) <= Occurrences(toClient, LoadAcks)
  BY <1>2, <1>13, OccurrencesMonotonic
<1>16. Occurrences(u, B) = Occurrences(w, B) + Occurrences(toClient, B)
  BY <1>8
<1>17. Occurrences(w, B) <= Occurrences(wire, B) + Closing
  <2>1. Occurrences(w, B) = Occurrences(wire, B) + IF r \in B THEN Closing ELSE 0
    BY <1>6
  <2>2. Occurrences(wire, B) \in Nat
    BY <1>2, OccurrencesMember
  <2>3. QED BY ONLY <1>4, <2>1, <2>2
<1>18. {a[id] : id \in U16} = {AwaitsOf(id) : id \in U16}
  OBVIOUS
<1> HIDE DEF a
<1>19. /\ Occurrences(exchanges, UNION {a[id] : id \in U16}) \in Nat
       /\ Occurrences(wire, B) \in Nat /\ Occurrences(toClient, B) \in Nat
       /\ Occurrences(wire, LoadPackets) \in Nat /\ Occurrences(toClient, LoadAcks) \in Nat
       /\ Occurrences(w, B) \in Nat
  BY <1>2, <1>5, OccurrencesMember
<1>20. Occurrences(exchanges, UNION {a[id] : id \in U16})
       <= Occurrences(wire, LoadPackets) + Occurrences(toClient, LoadAcks) + Closing
  BY ONLY <1>4, <1>12, <1>14, <1>15, <1>16, <1>17, <1>19
<1>21. QED BY <1>18, <1>20

\* What an open connection makes room for is all the server has open.
LEMMA OpenWindow ==
    ASSUME IInv, SessionTypeOK, AwaitInv, LoadInv, open
    PROVE  ServerWindow
<1>1. TypeOK /\ EarlyInv
  BY DEF IInv
<1>2. wire \in Seq(Packet) /\ toClient \in Seq(ServerPacket) /\ exchanges \in Seq(Exchange)
  BY <1>1 DEF TypeOK, SessionTypeOK
<1> DEFINE W == UNION {AwaitsOf(id) : id \in U16}
           D == LoadDuties
<1>3. Occurrences(exchanges, W)
      <= Occurrences(wire, LoadPackets) + Occurrences(toClient, LoadAcks) + Closing
  BY <1>1, AwaitTotal
<1>4. Len(exchanges) = Occurrences(exchanges, D) + Occurrences(exchanges, W)
  <2>1. \A y : y \in W <=> \E id \in U16 : y \in AwaitsOf(id)
    OBVIOUS
  <2>2. D \cap W = {}
    BY <2>1 DEF LoadDuties, AwaitsOf
  <2>3. Exchange \subseteq D \cup W
    <3> SUFFICES ASSUME NEW y \in Exchange, y \notin D PROVE y \in W
      OBVIOUS
    <3>1. y.stage = "await_rel" /\ y.id \in U16
      BY DutyKinds
    <3>2. y \in AwaitsOf(y.id)
      BY <3>1, DutyKinds
    <3>3. QED BY <2>1, <3>1, <3>2
  <2> HIDE DEF D, W
  <2>4. Occurrences(exchanges, D \cup W) = Occurrences(exchanges, D) + Occurrences(exchanges, W)
    BY <1>2, <2>2, OccurrencesUnion
  <2>5. Occurrences(exchanges, D \cup W) = Len(exchanges)
    BY <1>2, <2>3, OccurrencesAll
  <2>6. QED BY <2>4, <2>5
<1> HIDE DEF W
<1>5. /\ Occurrences(exchanges, D) \in Nat /\ Occurrences(exchanges, W) \in Nat
      /\ Occurrences(wire, LoadPackets) \in Nat /\ Occurrences(toClient, LoadAcks) \in Nat
      /\ Closing \in {0, 1}
  BY <1>2, OccurrencesMember DEF Closing
<1>6. Len(exchanges) <= Load + Closing
  <2>1. Load = Occurrences(wire, LoadPackets) + Occurrences(exchanges, D)
               + Occurrences(toClient, LoadAcks)
    BY DEF Load
  <2>2. QED BY ONLY <1>3, <1>4, <1>5, <2>1
<1>7. Room + Closing <= Granted /\ Room \in Int /\ Granted \in Int
  <2>1. early \in Nat /\ maxQuota \in Nat /\ quota \in Nat /\ Returning \in {0, 1}
    BY <1>1, U16MaxAssumption DEF TypeOK, U16, Returning
  <2>2. CASE connected
    <3>1. Granted = early + maxQuota
      BY <2>2 DEF Granted
    <3>2. Room = Granted - (quota + Returning + Closing)
      BY <2>2 DEF Room
    <3>3. QED BY ONLY <1>5, <2>1, <3>1, <3>2
  <2>3. CASE ~connected
    <3>1. Closing = 0
      BY <1>1, <2>3 DEF EarlyInv, Closing
    <3>2. Granted = early + 0
      BY <2>3 DEF Granted
    <3>3. Room = Granted - 0
      BY <2>3 DEF Room
    <3>4. QED BY ONLY <2>1, <3>1, <3>2, <3>3
  <2>4. QED BY <2>2, <2>3
<1>8. Load <= Room
  BY DEF LoadInv
<1>9. Len(exchanges) \in Nat /\ Load \in Int
  BY ONLY <1>4, <1>5 DEF Load
<1>10. Len(exchanges) <= Granted
  BY ONLY <1>5, <1>6, <1>7, <1>8, <1>9
<1>11. QED BY <1>10 DEF ServerWindow

\* What is granted is not taken back.
LEMMA GrantGrows ==
    ASSUME TypeOK, TypeOK', [Next]_vars
    PROVE  Granted' >= Granted
<1>1. /\ early \in Nat /\ early' \in Nat /\ maxQuota \in Nat /\ maxQuota' \in Nat
      /\ connected \in BOOLEAN /\ connected' \in BOOLEAN
  BY U16MaxAssumption DEF TypeOK, U16
<1>2. early' = early \/ early' = early + 1
  BY DEF Next, User, PublishQos0, TakeRequestIdentifier, Publish, Return, PubackReturn,
         PubrecReturn, Transmit, Close, HandleConnack, Handle, HandlePuback,
         HandleUnknownPuback, HandlePubrec, HandlePubrecError, HandlePubrecMismatch,
         HandleUnknownPubrec, HandlePubcomp, history, vars
<1>3. \/ connected' = connected /\ maxQuota' = maxQuota
      \/ ~connected
  BY DEF Next, User, PublishQos0, TakeRequestIdentifier, Publish, Return, PubackReturn,
         PubrecReturn, Transmit, Close, HandleConnack, Handle, HandlePuback,
         HandleUnknownPuback, HandlePubrec, HandlePubrecError, HandlePubrecMismatch,
         HandleUnknownPubrec, HandlePubcomp, vars
<1>4. /\ connected => Granted = early + maxQuota
      /\ ~connected => Granted = early + 0
      /\ connected' => Granted' = early' + maxQuota'
      /\ ~connected' => Granted' = early' + 0
  BY DEF Granted
<1>5. QED BY ONLY <1>1, <1>2, <1>3, <1>4

LEMMA ClosedStep ==
    ASSUME Situation, AwaitInv, LoadInv, ClosedWindow, [SessionNext]_sessionVars
    PROVE  ClosedWindow'
<1>1. IInv /\ TypeOK /\ TypeOK' /\ SessionTypeOK /\ SessionTypeOK' /\ [Next]_vars
  BY SituationTypes, SessionStep
<1>2. ServerWindow
  BY <1>1, OpenWindow DEF ClosedWindow
<1>3. SUFFICES ASSUME ~open' PROVE ServerWindow'
  BY DEF ClosedWindow
<1>4. exchanges' = exchanges
  BY <1>3 DEF SessionNext, ClientReceive, ServerReceive, Transmit, ServerAnswer, Disconnect,
              sessionVars, vars
<1>5. Granted' >= Granted
  BY <1>1, GrantGrows
<1>6. Granted \in Int /\ Granted' \in Int /\ Len(exchanges) \in Nat
  <2>1. /\ early \in Int /\ early' \in Int /\ maxQuota \in Int /\ maxQuota' \in Int
        /\ connected \in BOOLEAN /\ connected' \in BOOLEAN
    BY <1>1, U16MaxAssumption DEF TypeOK, U16
  <2>2. Granted = early + (IF connected THEN maxQuota ELSE 0)
    BY DEF Granted
  <2>3. Granted' = early' + (IF connected' THEN maxQuota' ELSE 0)
    BY DEF Granted
  <2>4. Granted \in Int
    BY ONLY <2>1, <2>2
  <2>5. Granted' \in Int
    BY ONLY <2>1, <2>3
  <2>6. QED BY <1>1, <2>4, <2>5, LenProperties DEF SessionTypeOK
<1>7. Len(exchanges) <= Granted
  BY <1>2 DEF ServerWindow
<1>8. Len(exchanges) <= Granted'
  BY ONLY <1>5, <1>6, <1>7
<1>9. QED BY <1>4, <1>8 DEF ServerWindow

LEMMA NotCutOffStep ==
    ASSUME Situation, SharedInv, TokenInv, OwnInv, NotCutOff, [SessionNext]_sessionVars
    PROVE  NotCutOff'
<1>1. SUFFICES ASSUME NEW n \in DOMAIN outcome', outcome'[n] = "done", n \notin shared'
               PROVE  FALSE
  BY DEF NotCutOff
<1>2. n \notin shared
  BY <1>1, SharedStep
<1>3. n \in DOMAIN outcome /\ outcome[n] = "done"
  BY <1>1, <1>2, FateStep
<1>4. QED BY <1>2, <1>3 DEF NotCutOff
-----------------------------------------------------------------------------
(* The theorems *)

\* Nothing is in, and occurs in, the empty sequence.
LEMMA NothingOccurs == ToSet(<<>>) = {} /\ \A T : Occurrences(<<>>, T) = 0
<1> DEFINE s == <<>>
<1>1. s \in Seq({}) /\ Len(s) = 0 /\ 1 .. 0 = {}
  OBVIOUS
<1>2. \A T : IsFiniteSet({}) /\ Cardinality({}) = 0
  BY FS_EmptySet
<1> HIDE DEF s
<1>3. \A T : Occurrences(s, T) = 0
  BY <1>1, <1>2 DEF Occurrences
<1>4. ToSet(s) = {}
  BY <1>1, ToSetMembers
<1>5. QED BY <1>3, <1>4 DEF s

LEMMA SessionStart == SessionInit => SessionIInv
<1> SUFFICES ASSUME SessionInit PROVE SessionIInv
  OBVIOUS
<1>1. IInv /\ TypeOK /\ Init
  BY InitIInv DEF SessionInit, IInv
<1>2. PICK rm \in ReceiveMaxima : toClient = <<[type |-> "connack", receiveMaximum |-> rm]>>
  BY DEF SessionInit
<1> DEFINE c == [type |-> "connack", receiveMaximum |-> rm]
<1>3. /\ wire = <<>> /\ inflight = <<>> /\ outcome = <<>> /\ exchanges = <<>> /\ shared = {}
      /\ handler = "none" /\ ~connected /\ early = 0 /\ open
  BY <1>1 DEF SessionInit, Init
<1>4. c \in ServerPacket /\ c \in Connack
  BY DEF ServerPacket, Connack
<1>5. toClient \in Seq(ServerPacket) /\ ToSet(toClient) = {c} /\ \A T : c \notin T => Occurrences(toClient, T) = 0
  <2> HIDE DEF c
  <2>1. <<>> \in Seq(ServerPacket) /\ toClient = Append(<<>>, c)
    BY <1>2 DEF c
  <2>2. toClient \in Seq(ServerPacket) /\ Gained(<<>>, toClient, c)
    BY <1>4, <2>1, Moves
  <2>3. \A T : Occurrences(<<>>, T) = 0
    BY NothingOccurs
  <2>4. ToSet(<<>>) = {}
    BY NothingOccurs
  <2>5. \A T : Occurrences(toClient, T) = Occurrences(<<>>, T) + IF c \in T THEN 1 ELSE 0
    BY <2>2 DEF Gained
  <2>6. \A T : c \notin T => Occurrences(toClient, T) = 0
    BY <2>3, <2>5
  <2>7. QED BY <2>2, <2>4, <2>6 DEF Gained
<1>6. /\ wire \in Seq(Packet) /\ inflight \in Seq(InFlight) /\ exchanges \in Seq(Exchange)
      /\ \A T : /\ Occurrences(wire, T) = 0 /\ Occurrences(inflight, T) = 0
                /\ Occurrences(exchanges, T) = 0
      /\ ToSet(wire) = {} /\ ToSet(inflight) = {} /\ ToSet(exchanges) = {}
  <2>1. <<>> \in Seq(Packet) /\ <<>> \in Seq(InFlight) /\ <<>> \in Seq(Exchange)
    OBVIOUS
  <2>2. \A T : Occurrences(<<>>, T) = 0
    BY NothingOccurs
  <2>3. ToSet(<<>>) = {}
    BY NothingOccurs
  <2>4. QED BY <1>3, <2>1, <2>2, <2>3
<1>7. /\ c \notin LoadAcks /\ \A id, Q : c \notin AcksOf(id, Q)
      /\ \A id : c \notin PubrecsOf(id)
  <2>1. c.type = "connack"
    OBVIOUS
  <2> HIDE DEF c
  <2>2. QED BY <1>4, <2>1, AckKinds
<1> HIDE DEF c
<1>8. SessionTypeOK
  BY <1>3, <1>5, <1>6 DEF SessionTypeOK
<1>9. SharedInv
  BY <1>6 DEF SharedInv
<1>10. TokenInv
  BY <1>5, <1>6, <1>7 DEF TokenInv, Tokens, Entries
<1>11. AwaitInv
  <2>1. Closing = 0
    BY <1>3 DEF Closing
  <2>2. \A id : Awaiting(id) = 0 /\ Coming(id) = 0
    BY <1>5, <1>6, <1>7 DEF Awaiting, Coming
  <2>3. 1 \in U16
    BY U16MaxAssumption DEF U16
  <2>4. AwaitInvFor(1)
    BY <2>1, <2>2 DEF AwaitInvFor
  <2>5. QED BY <2>3, <2>4 DEF AwaitInv
<1>12. LoadInv
  <2>1. Load = 0
    BY <1>5, <1>6, <1>7 DEF Load
  <2>2. Room = (0 + 0) - 0
    BY <1>3 DEF Room, Granted
  <2>3. QED BY <2>1, <2>2 DEF LoadInv
<1>13. OwnInv
  BY <1>6 DEF OwnInv
<1>14. ClosedWindow /\ NotCutOff
  BY <1>3 DEF ClosedWindow, NotCutOff
<1>15. QED BY <1>1, <1>8, <1>9, <1>10, <1>11, <1>12, <1>13, <1>14 DEF SessionIInv

LEMMA SessionStays == SessionIInv /\ [SessionNext]_sessionVars => SessionIInv'
<1> SUFFICES ASSUME SessionIInv, [SessionNext]_sessionVars PROVE SessionIInv'
  OBVIOUS
<1>1. /\ IInv /\ SessionTypeOK /\ SharedInv /\ TokenInv /\ AwaitInv /\ LoadInv /\ OwnInv
      /\ ClosedWindow /\ NotCutOff
  BY DEF SessionIInv
<1>2. TypeOK /\ TypeOK' /\ SessionTypeOK' /\ [Next]_vars
  BY <1>1, SessionTypeStep, SessionStep DEF IInv
<1>3. Situation
  BY <1>1, <1>2 DEF Situation
<1>4. IInv'
  BY <1>1, <1>2, StepIInv
<1>5. SharedInv' /\ TokenInv'
  BY <1>1, <1>3, SharedStep, TokenStep
<1>6. AwaitInv' /\ LoadInv'
  BY <1>1, <1>3, AwaitStep, LoadStep
<1>7. OwnInv'
  BY <1>1, <1>3, OwnStep
<1>8. ClosedWindow' /\ NotCutOff'
  BY <1>1, <1>3, ClosedStep, NotCutOffStep
<1>9. QED BY <1>2, <1>4, <1>5, <1>6, <1>7, <1>8 DEF SessionIInv

\* What the session's other theorems rest on: tokens, PUBRELs to come, the
\* server's load and whose each token is.
THEOREM SessionInductive == SessionSpec => []SessionIInv
BY SessionStart, SessionStays, PTL DEF SessionSpec

\* Flow control as the server sees it: whatever the identifiers, the queue and
\* the mismatched acknowledgements do, the server never has more exchanges open
\* than it granted.
THEOREM ServerWindowCorrect == SessionSpec => []ServerWindow
<1>1. SessionIInv => ServerWindow
  BY OpenWindow DEF SessionIInv, ClosedWindow
<1>2. QED BY <1>1, SessionInductive, PTL

\* With a server that follows the protocol only a publish that shared its
\* identifier is completed as done, after which the connection is closed.
THEOREM NotCutOffCorrect == SessionSpec => []NotCutOff
<1>1. SessionIInv => NotCutOff
  BY DEF SessionIInv
<1>2. QED BY <1>1, SessionInductive, PTL

\* A publish that never shared its identifier is told its fate by the
\* acknowledgement of that publish and by no other.
THEOREM AckCorrect == SessionSpec => AckFinishesItsPublish
<1> DEFINE Answered == \A n \in DOMAIN outcome :
                         outcome'[n] # outcome[n] /\ n \notin shared =>
                             toClient # <<>> /\ Head(toClient).op = n
<1>1. SessionIInv /\ [SessionNext]_sessionVars => [Answered]_sessionVars
  <2> SUFFICES ASSUME SessionIInv, [SessionNext]_sessionVars,
                      NEW n \in DOMAIN outcome, outcome'[n] # outcome[n], n \notin shared
               PROVE  toClient # <<>> /\ Head(toClient).op = n
    OBVIOUS
  <2>1. /\ IInv /\ SessionTypeOK /\ SharedInv /\ TokenInv /\ OwnInv
    BY DEF SessionIInv
  <2>2. TypeOK /\ TypeOK' /\ SessionTypeOK' /\ [Next]_vars
    BY <2>1, SessionTypeStep, SessionStep DEF IInv
  <2>3. Situation
    BY <2>1, <2>2 DEF Situation
  <2>4. n \in DOMAIN outcome'
    <3>1. outcome \in Seq(Outcomes)
      BY <2>2 DEF TypeOK
    <3>2. CASE outcome' = Append(outcome, "pending")
      <4>1. "pending" \in Outcomes
        BY DEF Outcomes
      <4>2. QED BY <3>1, <3>2, <4>1, AppendProperties
    <3>3. CASE Tells
      BY <3>3 DEF Tells
    <3>4. QED BY <2>1, <2>2, <3>2, <3>3, Steps DEF StartsAndWaits, StartsAndHandsOver, HandsOver
  <2>5. QED BY <2>1, <2>3, <2>4, FateStep
<1>2. QED BY <1>1, SessionInductive, PTL DEF SessionSpec, AckFinishesItsPublish
-----------------------------------------------------------------------------
(* PACKET IDENTIFIERS *)

(***************************************************************************)
(* Which publishes in flight may have the same packet identifier.          *)
(*                                                                         *)
(* Nothing in the client looks whether an identifier is in use.  It draws  *)
(* them in turn, so two publishes have the same one only if U16Max draws   *)
(* lie between them.  That a QoS 1 publish in flight sees fewer draws than *)
(* that follows from the window, if no publish behind it gave its quota    *)
(* back before it: the PUBACKs come in the order of the publishes, since   *)
(* the wire, what the server has yet to acknowledge and what is under way  *)
(* to the client are all queues.                                           *)
(***************************************************************************)
-----------------------------------------------------------------------------
(* Publishes in the order in which they went *)

\* What of a sequence lies in T is in the order of its publishes.
Ordered(s, T) ==
    \A i, j \in 1 .. Len(s) : i < j /\ s[i] \in T /\ s[j] \in T => s[i].op < s[j].op

\* Which publishes these are, and with which identifiers.
Mark(x) == [op |-> x.op, id |-> x.id]
Marks(s, T) == {Mark(x) : x \in {y \in ToSet(s) : y \in T}}

\* From s to t nothing of T comes or goes; m comes last; m goes and was the first.
Kept(s, t, T) == Marks(t, T) = Marks(s, T) /\ (Ordered(s, T) => Ordered(t, T))
Joined(s, t, T, m) ==
    /\ Marks(t, T) = Marks(s, T) \cup {m}
    /\ Ordered(s, T) /\ (\A k \in Marks(s, T) : k.op < m.op) => Ordered(t, T)
Left(s, t, T, m) ==
    /\ Marks(s, T) = Marks(t, T) \cup {m}
    /\ Ordered(s, T) => Ordered(t, T) /\ \A k \in Marks(t, T) : m.op < k.op

\* In terms of positions.
LEMMA MarkPositions ==
    ASSUME NEW S, NEW s \in Seq(S), NEW T
    PROVE  \A m : m \in Marks(s, T) <=> \E i \in 1 .. Len(s) : s[i] \in T /\ m = Mark(s[i])
<1>1. \A x : x \in ToSet(s) <=> \E i \in 1 .. Len(s) : x = s[i]
  BY ToSetMembers
<1>2. QED BY <1>1 DEF Marks

\* An element more at the end.
LEMMA MarkAppended ==
    ASSUME NEW S, NEW s \in Seq(S), NEW T, NEW x \in S
    PROVE  /\ x \notin T => Kept(s, Append(s, x), T)
           /\ x \in T => Joined(s, Append(s, x), T, Mark(x))
<1> DEFINE t == Append(s, x)
<1>1. /\ t \in Seq(S) /\ Len(t) = Len(s) + 1 /\ t[Len(s) + 1] = x /\ Len(s) \in Nat
      /\ \A i \in 1 .. Len(s) : t[i] = s[i]
  BY AppendProperties, LenProperties
<1>2. ToSet(t) = ToSet(s) \cup {x}
  BY ToSetProperties
<1> HIDE DEF t
<1>3. \A i \in 1 .. Len(t) : \/ i \in 1 .. Len(s) /\ t[i] = s[i]
                             \/ i = Len(s) + 1 /\ t[i] = x
  BY <1>1
<1>4. ASSUME x \notin T PROVE Kept(s, t, T)
  <2>1. Marks(t, T) = Marks(s, T)
    BY <1>2, <1>4 DEF Marks
  <2>2. ASSUME Ordered(s, T) PROVE Ordered(t, T)
    <3>1. \A i \in 1 .. Len(t) : t[i] \in T => i \in 1 .. Len(s) /\ t[i] = s[i]
      BY <1>3, <1>4
    <3>2. QED BY <2>2, <3>1 DEF Ordered
  <2>3. QED BY <2>1, <2>2 DEF Kept
<1>5. ASSUME x \in T PROVE Joined(s, t, T, Mark(x))
  <2>1. Marks(t, T) = Marks(s, T) \cup {Mark(x)}
    BY <1>2, <1>5 DEF Marks
  <2>2. ASSUME Ordered(s, T), \A k \in Marks(s, T) : k.op < Mark(x).op
        PROVE  Ordered(t, T)
    <3>1. \A i \in 1 .. Len(s) : s[i] \in T => s[i].op < x.op
      <4> SUFFICES ASSUME NEW i \in 1 .. Len(s), s[i] \in T PROVE s[i].op < x.op
        OBVIOUS
      <4>1. Mark(s[i]) \in Marks(s, T)
        BY MarkPositions
      <4>2. Mark(s[i]).op < Mark(x).op
        BY <2>2, <4>1
      <4>3. QED BY <4>2 DEF Mark
    <3>2. SUFFICES ASSUME NEW i \in 1 .. Len(t), NEW j \in 1 .. Len(t), i < j, t[i] \in T, t[j] \in T
                   PROVE  t[i].op < t[j].op
      BY DEF Ordered
    <3>3. i \in 1 .. Len(s) /\ t[i] = s[i]
      BY <1>1, <1>3, <3>2
    <3>4. CASE j \in 1 .. Len(s) /\ t[j] = s[j]
      BY <2>2, <3>2, <3>3, <3>4 DEF Ordered
    <3>5. CASE t[j] = x
      BY <3>1, <3>2, <3>3, <3>5
    <3>6. QED BY <1>3, <3>4, <3>5
  <2>3. QED BY <2>1, <2>2 DEF Joined
<1>6. QED BY <1>4, <1>5 DEF t

\* An element less, before which nothing of T was.
LEMMA MarkErased ==
    ASSUME NEW S, NEW s \in Seq(S), NEW T, NEW i \in 1 .. Len(s), NEW t \in Seq(S),
           IsWithout(t, s, i), ToSet(s) = ToSet(t) \cup {s[i]}
    PROVE  /\ Ordered(s, T) => Ordered(t, T)
           /\ s[i] \notin T => Kept(s, t, T)
           /\ s[i] \in T /\ (\A j \in 1 .. i - 1 : s[j] \notin T) => Left(s, t, T, Mark(s[i]))
<1>1. /\ Len(s) \in Nat /\ Len(t) \in Nat /\ Len(t) = Len(s) - 1
      /\ \A j \in 1 .. Len(t) : t[j] = IF j < i THEN s[j] ELSE s[j + 1]
  BY LenProperties DEF IsWithout
<1>2. /\ \A j \in 1 .. Len(t) : Before(j, i) \in 1 .. Len(s) /\ t[j] = s[Before(j, i)]
      /\ \A j, k \in 1 .. Len(t) : j < k => Before(j, i) < Before(k, i)
      /\ \A j \in 1 .. Len(t) : Before(j, i) # i /\ (Before(j, i) < i => Before(j, i) \in 1 .. i - 1)
  BY <1>1 DEF Before
<1>3. ASSUME Ordered(s, T) PROVE Ordered(t, T)
  BY <1>2, <1>3 DEF Ordered
<1>4. ASSUME s[i] \notin T PROVE Kept(s, t, T)
  <2>1. Marks(t, T) = Marks(s, T)
    BY <1>4 DEF Marks
  <2>2. QED BY <1>3, <2>1 DEF Kept
<1>5. ASSUME s[i] \in T, \A j \in 1 .. i - 1 : s[j] \notin T PROVE Left(s, t, T, Mark(s[i]))
  <2>1. Marks(s, T) = Marks(t, T) \cup {Mark(s[i])}
    BY <1>5 DEF Marks
  <2>2. ASSUME Ordered(s, T), NEW k \in Marks(t, T) PROVE Mark(s[i]).op < k.op
    <3>1. PICK j \in 1 .. Len(t) : t[j] \in T /\ k = Mark(t[j])
      BY MarkPositions
    <3>2. Before(j, i) \in 1 .. Len(s) /\ t[j] = s[Before(j, i)] /\ i < Before(j, i)
      <4>1. Before(j, i) \in Int /\ i \in Int
        BY <1>2
      <4>2. Before(j, i) # i /\ ~(Before(j, i) < i)
        BY <1>2, <1>5, <3>1
      <4>3. QED BY <1>2, <4>1, <4>2
    <3>3. s[i].op < t[j].op
      BY <1>5, <2>2, <3>1, <3>2 DEF Ordered
    <3>4. QED BY <3>1, <3>3 DEF Mark
  <2>3. QED BY <1>3, <2>1, <2>2 DEF Left
<1>6. QED BY <1>3, <1>4, <1>5

LEMMA MarkGone ==
    ASSUME NEW S, NEW s \in Seq(S), NEW T
    PROVE  /\ s # <<>> /\ Head(s) \notin T => Kept(s, Tail(s), T)
           /\ s # <<>> /\ Head(s) \in T => Left(s, Tail(s), T, Mark(Head(s)))
           /\ \A i \in 1 .. Len(s) :
                /\ Ordered(s, T) => Ordered(RemoveAt(s, i), T)
                /\ s[i] \notin T => Kept(s, RemoveAt(s, i), T)
                /\ s[i] \in T /\ (\A j \in 1 .. i - 1 : s[j] \notin T)
                     => Left(s, RemoveAt(s, i), T, Mark(s[i]))
<1>1. ASSUME s # <<>>
      PROVE  /\ Head(s) \notin T => Kept(s, Tail(s), T)
             /\ Head(s) \in T => Left(s, Tail(s), T, Mark(Head(s)))
  <2> DEFINE t == Tail(s)
  <2>1. /\ t \in Seq(S) /\ Len(t) = Len(s) - 1 /\ Head(s) = s[1] /\ Len(s) \in Nat /\ Len(s) > 0
        /\ \A j \in 1 .. Len(t) : t[j] = s[j + 1]
    BY <1>1, HeadTailProperties, LenProperties, EmptySeq
  <2>2. ToSet(s) = ToSet(t) \cup {Head(s)}
    BY <1>1, Moves DEF Lost
  <2> HIDE DEF t
  <2>3. 1 \in 1 .. Len(s) /\ IsWithout(t, s, 1) /\ 1 .. 1 - 1 = {}
    BY <2>1 DEF IsWithout
  <2>4. /\ s[1] \notin T => Kept(s, t, T)
        /\ s[1] \in T /\ (\A j \in 1 .. 1 - 1 : s[j] \notin T) => Left(s, t, T, Mark(s[1]))
    BY <2>1, <2>2, <2>3, MarkErased
  <2>5. QED BY <2>1, <2>3, <2>4 DEF t
<1>2. ASSUME NEW i \in 1 .. Len(s)
      PROVE  /\ Ordered(s, T) => Ordered(RemoveAt(s, i), T)
             /\ s[i] \notin T => Kept(s, RemoveAt(s, i), T)
             /\ s[i] \in T /\ (\A j \in 1 .. i - 1 : s[j] \notin T)
                  => Left(s, RemoveAt(s, i), T, Mark(s[i]))
  <2> DEFINE t == RemoveAt(s, i)
  <2>1. /\ t \in Seq(S) /\ Len(t) = Len(s) - 1 /\ Len(s) \in Nat
        /\ \A j \in 1 .. Len(s) - 1 : t[j] = IF j < i THEN s[j] ELSE s[j + 1]
    BY RemoveAtProperties, LenProperties
  <2>2. ToSet(s) = ToSet(t) \cup {s[i]}
    BY Moves DEF Lost
  <2> HIDE DEF t
  <2>3. IsWithout(t, s, i)
    BY <2>1 DEF IsWithout
  <2>4. QED BY <2>1, <2>2, <2>3, MarkErased DEF t
<1>3. QED BY <1>1, <1>2

\* An element is replaced by one with the same publish and the same standing.
LEMMA MarkReplaced ==
    ASSUME NEW S, NEW s \in Seq(S), NEW T, NEW i \in 1 .. Len(s), NEW x \in S,
           x \in T <=> s[i] \in T, x.op = s[i].op, x.id = s[i].id
    PROVE  Kept(s, [s EXCEPT ![i] = x], T)
<1> DEFINE t == [s EXCEPT ![i] = x]
<1>1. /\ t \in Seq(S) /\ Len(t) = Len(s) /\ t[i] = x
      /\ \A j \in 1 .. Len(s) : j # i => t[j] = s[j]
  BY ExceptSeq
<1> HIDE DEF t
<1>2. \A j \in 1 .. Len(s) : (t[j] \in T <=> s[j] \in T) /\ t[j].op = s[j].op /\ t[j].id = s[j].id
  BY <1>1
<1>3. \A m : m \in Marks(t, T) <=> m \in Marks(s, T)
  <2>1. \A j \in 1 .. Len(s) : Mark(t[j]) = Mark(s[j])
    BY <1>2 DEF Mark
  <2>2. /\ \A m : m \in Marks(t, T) <=> \E j \in 1 .. Len(t) : t[j] \in T /\ m = Mark(t[j])
        /\ \A m : m \in Marks(s, T) <=> \E j \in 1 .. Len(s) : s[j] \in T /\ m = Mark(s[j])
    BY <1>1, MarkPositions
  <2>3. QED BY <1>1, <1>2, <2>1, <2>2
<1>4. Ordered(s, T) => Ordered(t, T)
  BY <1>1, <1>2 DEF Ordered
<1>5. Marks(t, T) = Marks(s, T)
  BY <1>3
<1>6. QED BY <1>4, <1>5 DEF Kept, t
-----------------------------------------------------------------------------
(* Identifiers *)

\* What was given an identifier and has not come to its end.
Holders == Marks(queue, Message) \cup Marks(inflight, InFlight)

\* The identifier drawn so long ago, counting back from the next one, which is 1
\* after U16Max.
IsDrawn(id, ago, next) == id = IF ago < next THEN next - ago ELSE next - ago + U16Max

\* How long ago a publish drew its identifier, but for what the requests drew.
Age(m) == Len(outcome) - m.op + 1

\* Fewer draws apart than there are identifiers, two publishes differ in theirs.
ApartInv ==
    /\ \A m \in Holders : \E d \in 0 .. requests :
        Age(m) + d <= U16Max => IsDrawn(m.id, Age(m) + d, nextId)
    /\ \A m, n \in Holders : m.op < n.op /\ n.op - m.op + requests < U16Max => m.id # n.id

\* Publishes are in flight in the order in which they went.
InOrderInv == Ordered(inflight, InFlight)

LEMMA DrawProperties ==
    ASSUME nextId \in 1 .. U16Max, TakeIdentifier
    PROVE  /\ nextId' \in 1 .. U16Max
           /\ IsDrawn(nextId, 1, nextId')
           /\ \A id, ago \in Nat :
                ago < U16Max /\ IsDrawn(id, ago, nextId) => IsDrawn(id, ago + 1, nextId')
BY U16MaxAssumption DEF TakeIdentifier, Increment, IsDrawn

\* An identifier drawn since is another one.
LEMMA DrawnDiffers ==
    ASSUME nextId \in 1 .. U16Max, NEW id \in Nat, NEW ago \in Nat, 0 < ago, ago < U16Max,
           IsDrawn(id, ago, nextId)
    PROVE  id # nextId
BY U16MaxAssumption DEF IsDrawn

\* Who holds an identifier is a publish that was started.
LEMMA HolderKinds ==
    ASSUME IInv, NEW m \in Holders
    PROVE  m.op \in 1 .. Len(outcome) /\ m.id \in Nat
<1>1. /\ queue \in Seq(Message) /\ inflight \in Seq(InFlight) /\ Len(sent) \in Nat
      /\ Len(queue) \in Nat /\ Len(outcome) \in Nat
  BY Lengths DEF IInv, TypeOK
<1>2. CASE m \in Marks(queue, Message)
  <2>1. PICK i \in 1 .. Len(queue) : queue[i] \in Message /\ m = Mark(queue[i])
    BY <1>1, <1>2, MarkPositions
  <2>2. queue[i].op = Len(sent) + i /\ Len(sent) + Len(queue) = Len(outcome)
    BY DEF IInv, OrderInv
  <2>3. queue[i].id \in Nat
    BY <2>1 DEF Message, U16
  <2>4. QED BY <1>1, <2>1, <2>2, <2>3 DEF Mark
<1>3. CASE m \in Marks(inflight, InFlight)
  <2>1. PICK i \in 1 .. Len(inflight) : inflight[i] \in InFlight /\ m = Mark(inflight[i])
    BY <1>1, <1>3, MarkPositions
  <2>2. inflight[i].op \in 1 .. Len(sent) /\ Len(sent) + Len(queue) = Len(outcome)
    BY DEF IInv, OrderInv, HeldInv
  <2>3. inflight[i].id \in Nat
    BY <2>1 DEF InFlight, U16
  <2>4. QED BY <1>1, <2>1, <2>2, <2>3 DEF Mark
<1>4. QED BY <1>2, <1>3 DEF Holders

\* The publish m is sent.
Sends(m) ==
    /\ m \in Message /\ m.op = Len(sent) + 1
    /\ inflight' = Append(inflight, Flying(m))
    /\ wire' = IF open' THEN Append(wire, PublishPacket(m)) ELSE wire
    /\ Len(sent') = Len(sent) + 1

LEMMA StartSends ==
    ASSUME TypeOK, NEW m \in Message, m.op = Len(sent) + 1, NEW q \in U16, q > 0, StartPublish(m, q)
    PROVE  Sends(m) /\ quota' = q - 1
<1>1. Len(sent') = Len(sent) + 1 /\ quota' = q - 1
  BY StartPublishEffect DEF HandedOver
<1>2. QED BY <1>1 DEF StartPublish, SendMessage, Sends, Flying

LEMMA PublishSends ==
    ASSUME IInv, NEW qos \in QosLevels, Publish(qos)
    PROVE  /\ TakeIdentifier /\ Len(outcome') = Len(outcome) + 1 /\ requests' = requests
           /\ UNCHANGED <<connected, open, maxQuota, handler>>
           /\ early' = IF connected THEN early ELSE early + 1
           /\ \E m \in Message :
                /\ Mark(m) = [op |-> Len(outcome) + 1, id |-> nextId]
                /\ \/ Sends(m) /\ queue' = queue /\ quota' = quota - 1
                   \/ queue' = Append(queue, m) /\ UNCHANGED <<quota, inflight, wire, sent>>
<1> DEFINE m == [op |-> Len(outcome) + 1, qos |-> qos, id |-> nextId]
<1>1. /\ TypeOK /\ Len(outcome) \in Nat /\ Len(outcome) < MaxPublishes /\ quota \in U16
      /\ Len(sent) + Len(queue) = Len(outcome) /\ Len(sent) \in Nat /\ Len(queue) \in Nat
      /\ (queue = <<>> <=> Len(queue) = 0)
  BY Lengths DEF IInv, TypeOK, Publish, OrderInv
<1>2. m \in Message
  <2>1. Len(outcome) + 1 \in 1 .. MaxPublishes
    BY <1>1, BoundsAssumption
  <2>2. nextId \in U16
    BY <1>1, U16MaxAssumption DEF TypeOK, U16
  <2>3. QED BY <2>1, <2>2 DEF Message
<1>3. Mark(m) = [op |-> Len(outcome) + 1, id |-> nextId] /\ m.op = Len(outcome) + 1
  BY DEF Mark
<1>4. /\ TakeIdentifier /\ outcome' = Append(outcome, "pending") /\ requests' = requests
      /\ UNCHANGED <<connected, open, maxQuota, handler>>
      /\ early' = IF connected THEN early ELSE early + 1
      /\ \/ quota > 0 /\ StartPublish(m, quota) /\ queue' = queue
         \/ queue' = Append(queue, m) /\ UNCHANGED <<quota, inflight, wire, sent>>
  BY DEF Publish
<1> HIDE DEF m
<1>5. Len(outcome') = Len(outcome) + 1
  BY <1>1, <1>4, AppendProperties DEF TypeOK, Outcomes
<1>6. quota > 0 => Len(sent) = Len(outcome)
  <2>1. quota > 0 => queue = <<>>
    BY DEF IInv, QuotaInv, QueueOnlyWithoutQuota
  <2>2. QED BY <1>1, <2>1
<1>7. ASSUME quota > 0, StartPublish(m, quota)
      PROVE  Sends(m) /\ quota' = quota - 1
  <2>1. m.op = Len(sent) + 1
    BY <1>3, <1>6, <1>7
  <2>2. QED BY <1>1, <1>2, <1>7, <2>1, StartSends
<1>8. QED BY <1>2, <1>3, <1>4, <1>5, <1>7

LEMMA MaybeSendSends ==
    ASSUME IInv, MaybeSendQueuedPublish
    PROVE  \/ /\ UNCHANGED <<queue, inflight, wire, sent>>
              /\ \/ quota >= maxQuota /\ quota' = quota
                 \/ quota < maxQuota /\ quota' = quota + 1
           \/ /\ queue # <<>> /\ Sends(Head(queue)) /\ queue' = Tail(queue)
              /\ quota' = quota
<1>1. /\ TypeOK /\ quota \in Nat /\ maxQuota \in Nat /\ maxQuota <= U16Max
      /\ Len(sent) \in Nat /\ Len(queue) \in Nat /\ (queue = <<>> <=> Len(queue) = 0)
  BY Lengths DEF IInv
<1>2. quota < maxQuota => Increment(quota) = quota + 1 /\ quota + 1 \in U16 /\ quota + 1 > 0
  BY <1>1, U16MaxAssumption DEF Increment, U16
<1>3. CASE quota < maxQuota /\ queue # <<>> /\ StartPublish(Head(queue), Increment(quota)) /\ queue' = Tail(queue)
  <2>1. Head(queue) \in Message /\ Head(queue) = queue[1] /\ 1 \in 1 .. Len(queue)
    BY <1>1, <1>3, HeadTailProperties DEF TypeOK
  <2>2. Head(queue).op = Len(sent) + 1
    BY <2>1 DEF IInv, OrderInv
  <2>3. Sends(Head(queue)) /\ quota' = quota + 1 - 1
    BY <1>1, <1>2, <1>3, <2>1, <2>2, StartSends
  <2>4. QED BY <1>1, <1>3, <2>3
<1>4. QED BY <1>1, <1>2, <1>3 DEF MaybeSendQueuedPublish

\* What is in flight was sent.
LEMMA FlightOps ==
    ASSUME IInv
    PROVE  /\ \A k \in Marks(inflight, InFlight) : k.op \in 1 .. Len(sent)
           /\ \A T : \A k \in Marks(inflight, T) : k.op \in 1 .. Len(sent)
           /\ \A e, f \in ToSet(inflight) : e.op = f.op => e = f
           /\ \A e \in ToSet(inflight) : e \in InFlight /\ e.op \in 1 .. Len(sent)
<1>1. inflight \in Seq(InFlight)
  BY DEF IInv, TypeOK
<1>2. /\ \A i \in 1 .. Len(inflight) : inflight[i] \in InFlight /\ inflight[i].op \in 1 .. Len(sent)
      /\ \A i, j \in 1 .. Len(inflight) : i # j => inflight[i].op # inflight[j].op
  BY <1>1, ElementOfSeq DEF IInv, HeldInv
<1>3. \A e \in ToSet(inflight) : \E i \in 1 .. Len(inflight) : e = inflight[i]
  BY <1>1, ToSetMembers
<1>4. \A T : \A k \in Marks(inflight, T) : k.op \in 1 .. Len(sent)
  <2> SUFFICES ASSUME NEW T, NEW k \in Marks(inflight, T) PROVE k.op \in 1 .. Len(sent)
    OBVIOUS
  <2>1. PICK i \in 1 .. Len(inflight) : k = Mark(inflight[i])
    BY <1>1, MarkPositions
  <2>2. QED BY <1>2, <2>1 DEF Mark
<1>5. QED BY <1>2, <1>3, <1>4

LEMMA SendsHolders ==
    ASSUME IInv, NEW m, Sends(m)
    PROVE  /\ Joined(inflight, inflight', InFlight, Mark(m))
           /\ InOrderInv => InOrderInv'
<1>1. /\ inflight \in Seq(InFlight) /\ Len(sent) \in Nat /\ m \in Message /\ m.op = Len(sent) + 1
      /\ inflight' = Append(inflight, Flying(m))
  BY Lengths DEF IInv, TypeOK, Sends
<1>2. Flying(m) \in InFlight /\ Mark(Flying(m)) = Mark(m) /\ Mark(m).op = m.op
  BY <1>1, Entrance DEF Mark
<1>3. Joined(inflight, inflight', InFlight, Mark(m))
  BY <1>1, <1>2, MarkAppended
<1>4. \A k \in Marks(inflight, InFlight) : k.op < Mark(m).op
  BY <1>1, <1>2, FlightOps
<1>5. QED BY <1>3, <1>4 DEF Joined, InOrderInv

LEMMA MaybeSendHolders ==
    ASSUME IInv, MaybeSendQueuedPublish
    PROVE  Holders' \subseteq Holders /\ (InOrderInv => InOrderInv')
<1>1. CASE UNCHANGED <<queue, inflight>>
  BY <1>1 DEF Holders, InOrderInv
<1>2. CASE queue # <<>> /\ Sends(Head(queue)) /\ queue' = Tail(queue)
  <2>1. queue \in Seq(Message) /\ Head(queue) \in Message
    BY <1>2 DEF IInv, TypeOK, Sends
  <2>2. Left(queue, queue', Message, Mark(Head(queue)))
    BY <1>2, <2>1, MarkGone
  <2>3. QED BY <1>2, <2>2, SendsHolders DEF Left, Joined, Holders
<1>3. QED BY <1>1, <1>2, MaybeSendSends

\* An entry is erased.
LEMMA FinishHolders ==
    ASSUME IInv, NEW i \in DOMAIN inflight, NEW o, Finish(i, o), queue' = queue
    PROVE  Holders' \subseteq Holders /\ (InOrderInv => InOrderInv') /\ Len(outcome') = Len(outcome)
<1>1. /\ inflight \in Seq(InFlight) /\ i \in 1 .. Len(inflight) /\ outcome \in Seq(Outcomes)
      /\ inflight' = RemoveAt(inflight, i) /\ outcome' = [outcome EXCEPT ![inflight[i].op] = o]
  BY Lengths DEF IInv, TypeOK, Finish
<1>2. ToSet(inflight) = ToSet(inflight') \cup {inflight[i]}
  BY <1>1, Moves DEF Lost
<1>3. InOrderInv => InOrderInv'
  BY <1>1, MarkGone DEF InOrderInv
<1>4. Marks(inflight', InFlight) \subseteq Marks(inflight, InFlight)
  BY <1>2 DEF Marks
<1>5. Len(outcome') = Len(outcome)
  <2>1. DOMAIN outcome' = DOMAIN outcome /\ outcome = [n \in 1 .. Len(outcome) |-> outcome[n]]
    BY <1>1, LenProperties
  <2>2. outcome' = [n \in 1 .. Len(outcome) |-> outcome'[n]] /\ Len(outcome) \in Nat
    BY <1>1, <2>1, LenProperties
  <2>3. QED BY <1>1, <2>1, <2>2, LenProperties
<1>6. QED BY <1>3, <1>4, <1>5 DEF Holders

\* A PUBREC changes neither the publish nor its identifier.
LEMMA PubrecKeeps ==
    ASSUME IInv, NEW id, HandlePubrec(id)
    PROVE  /\ \A T : (\A e \in InFlight : e.state # "waiting_puback" =>
                        (e \in T <=> [e EXCEPT !.state = "waiting_pubcomp"] \in T))
                     => Kept(inflight, inflight', T)
           /\ wire' = IF open' THEN Append(wire, PubrelPacket(id, TRUE)) ELSE wire
<1>1. PICK i \in DOMAIN inflight :
        /\ inflight[i].state # "waiting_puback"
        /\ inflight' = [inflight EXCEPT ![i].state = "waiting_pubcomp"]
        /\ SendMessage(PubrelPacket(id, TRUE))
  BY DEF HandlePubrec
<1>2. inflight \in Seq(InFlight) /\ i \in 1 .. Len(inflight) /\ inflight[i] \in InFlight
  BY LenProperties, ElementOfSeq DEF IInv, TypeOK
<1> DEFINE f == [inflight[i] EXCEPT !.state = "waiting_pubcomp"]
<1>3. /\ f \in InFlight /\ f.op = inflight[i].op /\ f.id = inflight[i].id
      /\ inflight' = [inflight EXCEPT ![i] = f]
  BY <1>1, <1>2, EntryKinds
<1>4. \A T : (\A e \in InFlight : e.state # "waiting_puback" =>
                        (e \in T <=> [e EXCEPT !.state = "waiting_pubcomp"] \in T))
              => (f \in T <=> inflight[i] \in T)
  BY <1>1, <1>2
<1> HIDE DEF f
<1>5. \A T : (f \in T <=> inflight[i] \in T) => Kept(inflight, inflight', T)
  BY <1>2, <1>3, MarkReplaced
<1>6. QED BY <1>1, <1>4, <1>5 DEF SendMessage

\* What any step does to those that hold an identifier.
LEMMA HolderStep ==
    ASSUME IInv, TypeOK', [Next]_vars
    PROVE  /\ \/ /\ TakeIdentifier /\ Len(outcome') = Len(outcome) + 1 /\ requests' = requests
                 /\ Holders' \subseteq Holders \cup {[op |-> Len(outcome) + 1, id |-> nextId]}
              \/ /\ TakeIdentifier /\ Len(outcome') = Len(outcome) /\ requests' = requests + 1
                 /\ Holders' \subseteq Holders
              \/ /\ Len(outcome') = Len(outcome) /\ UNCHANGED <<nextId, requests>>
                 /\ Holders' \subseteq Holders
           /\ InOrderInv => InOrderInv'
<1>1. ASSUME NEW qos \in QosLevels, Publish(qos)
      PROVE  /\ TakeIdentifier /\ Len(outcome') = Len(outcome) + 1 /\ requests' = requests
             /\ Holders' \subseteq Holders \cup {[op |-> Len(outcome) + 1, id |-> nextId]}
             /\ InOrderInv => InOrderInv'
  <2>1. TakeIdentifier /\ Len(outcome') = Len(outcome) + 1 /\ requests' = requests
    BY <1>1, PublishSends
  <2>2. PICK m \in Message :
          /\ Mark(m) = [op |-> Len(outcome) + 1, id |-> nextId]
          /\ \/ Sends(m) /\ queue' = queue
             \/ queue' = Append(queue, m) /\ inflight' = inflight
    BY <1>1, PublishSends
  <2>3. CASE Sends(m) /\ queue' = queue
    BY <2>1, <2>2, <2>3, SendsHolders DEF Joined, Holders
  <2>4. CASE queue' = Append(queue, m) /\ inflight' = inflight
    <3>1. queue \in Seq(Message)
      BY DEF IInv, TypeOK
    <3>2. Joined(queue, queue', Message, Mark(m))
      BY <2>4, <3>1, MarkAppended
    <3>3. QED BY <2>1, <2>2, <2>4, <3>2 DEF Joined, Holders, InOrderInv
  <2>5. QED BY <2>2, <2>3, <2>4
<1>2. CASE TakeRequestIdentifier
  BY <1>2 DEF TakeRequestIdentifier, Holders, InOrderInv
<1>3. ASSUME NEW id \in U16,
             HandlePuback(id) \/ HandlePubrecError(id) \/ HandlePubrecMismatch(id) \/ HandlePubcomp(id)
      PROVE  /\ Len(outcome') = Len(outcome) /\ UNCHANGED <<nextId, requests>>
             /\ Holders' \subseteq Holders /\ (InOrderInv => InOrderInv')
  <2>1. \E i \in DOMAIN inflight, o \in Outcomes : Finish(i, o)
    BY <1>3 DEF HandlePuback, HandlePubrecError, HandlePubrecMismatch, HandlePubcomp, Outcomes
  <2>2. UNCHANGED <<nextId, requests, queue>>
    BY <1>3 DEF HandlePuback, HandlePubrecError, HandlePubrecMismatch, HandlePubcomp
  <2>3. QED BY <2>1, <2>2, FinishHolders
<1>4. ASSUME NEW id \in U16, HandlePubrec(id)
      PROVE  /\ Len(outcome') = Len(outcome) /\ UNCHANGED <<nextId, requests>>
             /\ Holders' \subseteq Holders /\ (InOrderInv => InOrderInv')
  <2>1. UNCHANGED <<nextId, requests, queue, outcome>>
    BY <1>4 DEF HandlePubrec, history
  <2>2. \A e \in InFlight : e \in InFlight <=> [e EXCEPT !.state = "waiting_pubcomp"] \in InFlight
    BY EntryKinds
  <2>3. Kept(inflight, inflight', InFlight)
    BY <1>4, <2>2, PubrecKeeps
  <2>4. QED BY <2>1, <2>3 DEF Kept, Holders, InOrderInv
<1>5. ASSUME MaybeSendQueuedPublish, UNCHANGED <<nextId, requests, outcome>>
      PROVE  /\ Len(outcome') = Len(outcome) /\ UNCHANGED <<nextId, requests>>
             /\ Holders' \subseteq Holders /\ (InOrderInv => InOrderInv')
  BY <1>5, MaybeSendHolders
<1>6. CASE UNCHANGED <<queue, inflight, outcome, nextId, requests>>
  BY <1>6 DEF Holders, InOrderInv
<1>7. \/ \E qos \in QosLevels : Publish(qos)
      \/ TakeRequestIdentifier
      \/ \E id \in U16 : HandlePuback(id) \/ HandlePubrecError(id) \/ HandlePubrecMismatch(id) \/ HandlePubcomp(id)
      \/ \E id \in U16 : HandlePubrec(id)
      \/ MaybeSendQueuedPublish /\ UNCHANGED <<nextId, requests, outcome>>
      \/ UNCHANGED <<queue, inflight, outcome, nextId, requests>>
  BY DEF Next, User, PublishQos0, HandleConnack, Handle, HandleUnknownPuback, HandleUnknownPubrec,
         Return, PubackReturn, PubrecReturn, Transmit, Close, vars, history
<1>8. QED BY <1>1, <1>2, <1>3, <1>4, <1>5, <1>6, <1>7

\* One more was drawn, so that every identifier was drawn one longer ago.
LEMMA Older ==
    ASSUME IInv, TakeIdentifier, NEW m \in Holders, NEW a \in Nat,
           a <= U16Max => IsDrawn(m.id, a, nextId)
    PROVE  a + 1 <= U16Max => IsDrawn(m.id, a + 1, nextId')
<1>1. nextId \in 1 .. U16Max /\ m.id \in Nat
  BY HolderKinds DEF IInv, TypeOK
<1>2. a + 1 <= U16Max => a <= U16Max /\ a < U16Max
  BY U16MaxAssumption
<1>3. QED BY <1>1, <1>2, DrawProperties

LEMMA ApartStep ==
    ASSUME IInv, ApartInv, [Next]_vars
    PROVE  ApartInv'
<1>1. /\ TypeOK /\ TypeOK' /\ IInv' /\ nextId \in 1 .. U16Max /\ requests \in Nat /\ Len(outcome) \in Nat
  BY TypeStep, StepIInv, Lengths DEF IInv, TypeOK
<1>2. \A m \in Holders : m.op \in 1 .. Len(outcome) /\ m.id \in Nat
  BY HolderKinds
<1>3. /\ \A m \in Holders : \E d \in 0 .. requests :
           Age(m) + d <= U16Max => IsDrawn(m.id, Age(m) + d, nextId)
      /\ \A m, n \in Holders : m.op < n.op /\ n.op - m.op + requests < U16Max => m.id # n.id
  BY DEF ApartInv
<1>4. CASE /\ Len(outcome') = Len(outcome) /\ UNCHANGED <<nextId, requests>>
           /\ Holders' \subseteq Holders
  BY <1>3, <1>4 DEF ApartInv, Age
<1>5. CASE /\ TakeIdentifier /\ Len(outcome') = Len(outcome) /\ requests' = requests + 1
           /\ Holders' \subseteq Holders
  <2>1. ASSUME NEW m \in Holders'
        PROVE  \E d \in 0 .. requests' :
                 Age(m)' + d <= U16Max => IsDrawn(m.id, Age(m)' + d, nextId')
    <3>1. m \in Holders /\ Age(m)' = Age(m) /\ Age(m) \in Nat
      BY <1>1, <1>2, <1>5, <2>1 DEF Age
    <3>2. PICK d \in 0 .. requests : Age(m) + d <= U16Max => IsDrawn(m.id, Age(m) + d, nextId)
      BY <1>3, <3>1
    <3> HIDE DEF Age
    <3>3. Age(m) + d \in Nat /\ d + 1 \in 0 .. requests' /\ Age(m) + d + 1 = Age(m) + (d + 1)
      BY <1>1, <1>5, <3>1
    <3>4. Age(m) + d + 1 <= U16Max => IsDrawn(m.id, Age(m) + d + 1, nextId')
      BY <1>5, <3>1, <3>2, <3>3, Older
    <3>5. QED BY <3>1, <3>3, <3>4
  <2>2. \A m, n \in Holders : n.op - m.op + requests' < U16Max => n.op - m.op + requests < U16Max
    BY <1>1, <1>2, <1>5, U16MaxAssumption
  <2>3. QED BY <1>3, <1>5, <2>1, <2>2 DEF ApartInv
<1>6. CASE /\ TakeIdentifier /\ Len(outcome') = Len(outcome) + 1 /\ requests' = requests
           /\ Holders' \subseteq Holders \cup {[op |-> Len(outcome) + 1, id |-> nextId]}
  <2>0. PICK new : new = [op |-> Len(outcome) + 1, id |-> nextId]
    OBVIOUS
  <2>1. ASSUME NEW m \in Holders
        PROVE  \E d \in 0 .. requests' :
                 Age(m)' + d <= U16Max => IsDrawn(m.id, Age(m)' + d, nextId')
    <3>1. Age(m)' = Age(m) + 1 /\ Age(m) \in Nat
      BY <1>1, <1>2, <1>6 DEF Age
    <3>2. PICK d \in 0 .. requests : Age(m) + d <= U16Max => IsDrawn(m.id, Age(m) + d, nextId)
      BY <1>3
    <3> HIDE DEF Age
    <3>3. Age(m) + d \in Nat /\ d \in 0 .. requests' /\ Age(m) + d + 1 = Age(m)' + d
      BY <1>1, <1>6, <3>1
    <3>4. Age(m) + d + 1 <= U16Max => IsDrawn(m.id, Age(m) + d + 1, nextId')
      BY <1>6, <3>2, <3>3, Older
    <3>5. QED BY <3>3, <3>4
  <2>2. \E d \in 0 .. requests' : Age(new)' + d <= U16Max => IsDrawn(new.id, Age(new)' + d, nextId')
    <3>1. Age(new)' = 1 /\ new.id = nextId /\ 0 \in 0 .. requests'
      BY <1>1, <1>6, <2>0 DEF Age
    <3>2. IsDrawn(nextId, 1 + 0, nextId')
      BY <1>1, <1>6, DrawProperties
    <3>3. QED BY <3>1, <3>2
  <2>3. ASSUME NEW m \in Holders, new.op - m.op + requests < U16Max PROVE m.id # new.id
    <3>1. new.op - m.op = Age(m) /\ Age(m) \in Nat /\ Age(m) > 0 /\ new.id = nextId
      BY <1>1, <1>2, <2>0 DEF Age
    <3>2. PICK d \in 0 .. requests : Age(m) + d <= U16Max => IsDrawn(m.id, Age(m) + d, nextId)
      BY <1>3
    <3> HIDE DEF Age
    <3>3. Age(m) + requests < U16Max
      BY <2>3, <3>1
    <3>4. Age(m) + d \in Nat /\ 0 < Age(m) + d /\ Age(m) + d < U16Max /\ Age(m) + d <= U16Max
      BY <1>1, <3>1, <3>3, U16MaxAssumption
    <3>5. QED BY <1>1, <1>2, <3>1, <3>2, <3>4, DrawnDiffers
  <2>4. \A m \in Holders : ~(new.op < m.op)
    BY <1>1, <1>2, <2>0
  <2>5. ~(new.op < new.op)
    BY <1>1, <2>0
  <2>6. Holders' \subseteq Holders \cup {new} /\ requests' = requests
    BY <1>6, <2>0
  <2>7. \A m, n \in Holders' : m.op < n.op /\ n.op - m.op + requests' < U16Max => m.id # n.id
    BY <1>3, <2>3, <2>4, <2>5, <2>6
  <2>8. \A m \in Holders' : \E d \in 0 .. requests' :
           Age(m)' + d <= U16Max => IsDrawn(m.id, Age(m)' + d, nextId')
    BY <2>1, <2>2, <2>6
  <2>9. QED BY <2>7, <2>8 DEF ApartInv
<1>7. QED BY <1>1, <1>4, <1>5, <1>6, HolderStep
-----------------------------------------------------------------------------
(* PUBACKs in their turn *)

\* There are identifiers enough for all that the window admits.
Ample == open /\ Granted + requests <= U16Max

\* The quota left, with the unit that a PUBACK handler will give back.
Spare == IF connected THEN quota + IF handler = "puback" THEN 1 ELSE 0 ELSE 0

\* What was sent since a QoS 1 publish in flight, and with it, fits what was granted.
SpanInv ==
    Ample => \A e \in ToSet(inflight) : e.qos = 1 => Len(sent) - e.op + 1 + Spare <= Granted

\* The QoS 1 publishes under way to the server, those it has yet to acknowledge,
\* those whose PUBACK is under way, and those in flight.
Publishes1 == {p \in Packet : p.type = "publish" /\ p.qos = 1}
Duties1 == {x \in Exchange : x.stage = "ack_due"}
Pubacks == {p \in Acknowledgement : p.type = "puback"}
Flights1 == {e \in InFlight : e.qos = 1}
Going == Marks(wire, Publishes1)
Due == Marks(exchanges, Duties1)
Acked == Marks(toClient, Pubacks)
Afloat == Marks(inflight, Flights1)

\* What is further on its way is an older publish.
OrderlyInv ==
    /\ Ordered(wire, Publishes1) /\ Ordered(exchanges, Duties1) /\ Ordered(toClient, Pubacks)
    /\ \A a \in Acked, d \in Due : a.op < d.op
    /\ \A a \in Acked, g \in Going : a.op < g.op
    /\ \A d \in Due, g \in Going : d.op < g.op

\* Every QoS 1 publish in flight is on its way, and nothing else.
PairedInv == Going \cup Due \cup Acked = Afloat

TurnInv == Ample /\ Healthy => OrderlyInv /\ PairedInv

\* The numbers these invariants are about.
Numbers ==
    /\ Granted \in Nat /\ Spare \in Nat /\ requests \in Nat /\ Len(sent) \in Nat /\ U16Max \in Nat
    /\ connected => Granted = early + maxQuota
    /\ ~connected => Granted = early /\ Spare = 0
    /\ connected /\ handler = "puback" => Spare = quota + 1
    /\ connected /\ handler # "puback" => Spare = quota
    /\ early \in Nat /\ maxQuota \in Nat /\ quota \in Nat

LEMMA NumbersNow == TypeOK => Numbers
<1> SUFFICES ASSUME TypeOK PROVE Numbers
  OBVIOUS
<1>1. /\ early \in Nat /\ maxQuota \in Nat /\ quota \in Nat /\ requests \in Nat
      /\ connected \in BOOLEAN /\ Len(sent) \in Nat
  BY Lengths DEF TypeOK
<1>2. /\ connected => Granted = early + maxQuota
      /\ ~connected => Granted = early + 0 /\ Spare = 0
      /\ connected /\ handler = "puback" => Spare = quota + 1
      /\ connected /\ handler # "puback" => Spare = quota + 0
  BY DEF Granted, Spare
<1>3. QED BY <1>1, <1>2, U16MaxAssumption DEF Numbers

LEMMA NumbersNext == TypeOK' => Numbers'
BY NumbersNow, PTL

LEMMA LessNeeded ==
    \A g, h, r, s, u \in Nat : h >= g /\ (s = r \/ s = r + 1) /\ h + s <= u => g + r <= u
OBVIOUS

\* The identifiers only get scarcer.
LEMMA AmpleStep ==
    ASSUME TypeOK, TypeOK', [Next]_vars, Ample'
    PROVE  Ample
<1>1. Granted' >= Granted
  BY GrantGrows
<1>2. requests' = requests \/ requests' = requests + 1
  BY DEF Next, User, PublishQos0, TakeRequestIdentifier, Publish, Return, PubackReturn,
         PubrecReturn, Transmit, Close, HandleConnack, Handle, HandlePuback,
         HandleUnknownPuback, HandlePubrec, HandlePubrecError, HandlePubrecMismatch,
         HandleUnknownPubrec, HandlePubcomp, history, vars
<1>3. open' => open
  BY DEF Next, User, PublishQos0, TakeRequestIdentifier, Publish, Return, PubackReturn,
         PubrecReturn, Transmit, Close, HandleConnack, Handle, HandlePuback,
         HandleUnknownPuback, HandlePubrec, HandlePubrecError, HandlePubrecMismatch,
         HandleUnknownPubrec, HandlePubcomp, history, vars
<1>4. /\ Granted \in Nat /\ requests \in Nat /\ U16Max \in Nat
      /\ Granted' \in Nat /\ requests' \in Nat
  BY NumbersNow, NumbersNext DEF Numbers
<1>5. open' /\ Granted' + requests' <= U16Max
  BY DEF Ample
<1>6. Granted + requests <= U16Max
  BY ONLY <1>1, <1>2, <1>4, <1>5, LessNeeded
<1>7. QED BY <1>3, <1>5, <1>6 DEF Ample

\* The invariants together keep QoS 1 publishes apart.
LEMMA SharingFollows ==
    ASSUME IInv, ApartInv, InOrderInv, SpanInv
    PROVE  SharedOnlyByQos2
<1>1. TypeOK /\ inflight \in Seq(InFlight) /\ DOMAIN inflight = 1 .. Len(inflight)
  BY LenProperties DEF IInv, TypeOK
<1>2. SUFFICES ASSUME Ample, NEW i \in 1 .. Len(inflight), NEW j \in 1 .. Len(inflight),
                      i < j, inflight[i].id = inflight[j].id, inflight[i].qos # 2
               PROVE  FALSE
  BY <1>1 DEF SharedOnlyByQos2, Ample
<1> DEFINE e == inflight[i]
           f == inflight[j]
<1>3. e \in InFlight /\ f \in InFlight /\ e \in ToSet(inflight) /\ f \in ToSet(inflight)
  BY <1>1, ElementOfSeq, ToSetMembers
<1>4. e.qos = 1 /\ e.op < f.op
  <2>1. e.qos = 1
    BY <1>2, <1>3, EntryKinds DEF Both
  <2>2. inflight[i] \in InFlight /\ inflight[j] \in InFlight /\ i < j
    BY <1>2, <1>3
  <2>3. QED BY <2>1, <2>2, <1>2 DEF InOrderInv, Ordered
<1>5. e.op \in 1 .. Len(sent) /\ f.op \in 1 .. Len(sent)
  BY <1>3, FlightOps
<1>6. e.id = f.id
  BY <1>2
<1>7. Mark(e) \in Holders /\ Mark(f) \in Holders
  BY <1>1, <1>3, MarkPositions DEF Holders
<1> HIDE DEF e, f
<1>8. Len(sent) - e.op + 1 + Spare <= Granted /\ Granted + requests <= U16Max
  BY <1>2, <1>3, <1>4 DEF SpanInv, Ample
<1>9. f.op - e.op + requests < U16Max
  <2>1. Granted \in Nat /\ Spare \in Nat /\ requests \in Nat /\ Len(sent) \in Nat /\ U16Max \in Nat
    BY <1>1, NumbersNow DEF Numbers
  <2>2. QED BY ONLY <1>4, <1>5, <1>8, <2>1
<1>10. Mark(e).id # Mark(f).id
  BY <1>4, <1>7, <1>9 DEF ApartInv, Mark
<1>11. QED BY <1>6, <1>10 DEF Mark

\* What is under way to the server takes room.
SpareInv == (\E p \in ToSet(wire) : p \in LoadPackets) => 1 + Spare <= Granted

LEMMA RoomLeft ==
    /\ \A l, e, m, q \in Nat : \A r, k \in {0, 1} :
        1 <= l /\ l <= e + m - (q + r + k) => 1 + (q + r) <= e + m /\ 1 + q <= e + m
    /\ \A l, e \in Nat : 1 <= l /\ l <= e => 1 + 0 <= e
    /\ \A a, b, c \in Nat : a > 0 => 1 <= a + b + c /\ a + b + c \in Nat
OBVIOUS

LEMMA SpareNow == TypeOK /\ SessionTypeOK /\ LoadInv => SpareInv
<1> SUFFICES ASSUME TypeOK, SessionTypeOK, LoadInv, NEW p \in ToSet(wire), p \in LoadPackets
             PROVE  1 + Spare <= Granted
  BY DEF SpareInv
<1>1. /\ wire \in Seq(Packet) /\ exchanges \in Seq(Exchange) /\ toClient \in Seq(ServerPacket)
      /\ Numbers
  BY NumbersNow DEF TypeOK, SessionTypeOK
<1> DEFINE a == Occurrences(wire, LoadPackets)
           b == Occurrences(exchanges, LoadDuties)
           c == Occurrences(toClient, LoadAcks)
<1>2. a \in Nat /\ b \in Nat /\ c \in Nat /\ a # 0
  BY <1>1, OccurrencesMember
<1>3. Load = a + b + c
  BY DEF Load
<1> HIDE DEF a, b, c
<1>4. Load \in Nat /\ 1 <= Load
  <2>1. a > 0
    BY <1>2
  <2>2. QED BY ONLY <1>2, <1>3, <2>1, RoomLeft
<1>5. Load <= Room
  BY DEF LoadInv
<1>6. Returning \in {0, 1} /\ Closing \in {0, 1} /\ (handler = "puback" => Returning = 1)
  BY DEF Returning, Closing
<1>7. CASE connected
  <2>1. Room = (early + maxQuota) - (quota + Returning + Closing)
    BY <1>7 DEF Room, Granted
  <2>2. 1 + (quota + Returning) <= early + maxQuota /\ 1 + quota <= early + maxQuota
    BY ONLY <1>1, <1>4, <1>5, <1>6, <2>1, RoomLeft DEF Numbers
  <2>3. QED BY <1>1, <1>6, <1>7, <2>2 DEF Numbers
<1>8. CASE ~connected
  <2>1. Room = (early + 0) - 0
    BY <1>8 DEF Room, Granted
  <2>2. Room = early
    BY ONLY <1>1, <2>1, RoomSums DEF Numbers
  <2>3. QED BY <1>1, <1>4, <1>5, <1>8, <2>2 DEF Numbers
<1>9. QED BY <1>7, <1>8

LEMMA SpareNext == TypeOK' /\ SessionTypeOK' /\ LoadInv' => SpareInv'
BY SpareNow, PTL

LEMMA LongerSpan ==
    \A g, h, k, n, o, p, s \in Nat :
        k = n + 1 /\ n - p + 1 + s <= g /\ o - h <= s - g - 1 => k - p + 1 + o <= h
OBVIOUS

LEMMA SpanSums ==
    /\ \A g, h, n, o, p, s \in Nat :
        n - p + 1 + s <= g /\ o - h <= s - g => n - p + 1 + o <= h
    /\ \A h, n, o \in Nat : 1 + o <= h => n + 1 - (n + 1) + 1 + o <= h
    /\ \A g, n, p, r, s \in Nat : n - p + 1 + s <= g /\ p < r => n - r + 1 + (s + 1) <= g
    /\ \A g, n, r, s, t \in Nat :
        n - r + 1 + (s + 1) <= g /\ (t = s \/ t = s + 1) => n - r + 1 + t <= g
OBVIOUS

\* A publish more is sent, and paid for.
LEMMA SpanSends ==
    ASSUME IInv, TypeOK', SpareInv', SpanInv, Ample' => Ample,
           NEW m, Sends(m), Spare' - Granted' <= Spare - Granted - 1
    PROVE  SpanInv'
<1>1. /\ m \in Message /\ m.op = Len(sent) + 1 /\ Len(sent') = Len(sent) + 1
      /\ inflight' = Append(inflight, Flying(m)) /\ inflight \in Seq(InFlight)
      /\ wire' = (IF open' THEN Append(wire, PublishPacket(m)) ELSE wire) /\ wire \in Seq(Packet)
      /\ Numbers /\ Numbers'
  BY NumbersNow, NumbersNext DEF Sends, IInv, TypeOK
<1>2. ToSet(inflight') = ToSet(inflight) \cup {Flying(m)} /\ Flying(m).op = m.op
  BY <1>1, Entrance, ToSetProperties
<1>3. SUFFICES ASSUME Ample', NEW e \in ToSet(inflight'), e.qos = 1
               PROVE  Len(sent') - e.op + 1 + Spare' <= Granted'
  BY DEF SpanInv
<1>4. CASE e \in ToSet(inflight)
  <2>1. Len(sent) - e.op + 1 + Spare <= Granted
    BY <1>3, <1>4 DEF SpanInv
  <2>2. e.op \in Nat
    BY <1>4, FlightOps
  <2>3. Len(sent') = Len(sent) + 1 /\ Spare' - Granted' <= Spare - Granted - 1
    BY <1>1
  <2>4. QED BY ONLY <1>1, <2>1, <2>2, <2>3, LongerSpan DEF Numbers
<1>5. CASE e = Flying(m)
  <2>1. PublishPacket(m) \in LoadPackets /\ PublishPacket(m) \in Packet
    BY <1>1, PublishPackets, PacketKinds DEF Both
  <2>2. PublishPacket(m) \in ToSet(wire')
    BY <1>1, <1>3, <2>1, ToSetProperties DEF Ample
  <2>3. 1 + Spare' <= Granted'
    BY <2>1, <2>2 DEF SpareInv
  <2>4. Len(sent) + 1 - (Len(sent) + 1) + 1 + Spare' <= Granted'
    BY ONLY <1>1, <2>3, SpanSums DEF Numbers
  <2>5. QED BY <1>1, <1>2, <1>5, <2>4
<1>6. QED BY <1>2, <1>4, <1>5

\* Nothing is sent, and no quota comes back.
LEMMA SpanStays ==
    ASSUME IInv, TypeOK', SpanInv, Ample' => Ample, Len(sent') = Len(sent),
           \A e \in ToSet(inflight') : \E f \in ToSet(inflight) : f.op = e.op /\ f.qos = e.qos,
           Spare' - Granted' <= Spare - Granted
    PROVE  SpanInv'
<1>1. Numbers /\ Numbers'
  BY NumbersNow, NumbersNext DEF IInv
<1>2. SUFFICES ASSUME Ample', NEW e \in ToSet(inflight'), e.qos = 1
               PROVE  Len(sent') - e.op + 1 + Spare' <= Granted'
  BY DEF SpanInv
<1>3. PICK f \in ToSet(inflight) : f.op = e.op /\ f.qos = 1
  BY <1>2
<1>4. Len(sent) - f.op + 1 + Spare <= Granted /\ f.op \in Nat
  BY <1>2, <1>3, FlightOps DEF SpanInv
<1>5. Len(sent) - f.op + 1 + Spare' <= Granted'
  BY ONLY <1>1, <1>4, SpanSums, Spare' - Granted' <= Spare - Granted DEF Numbers
<1>6. QED BY <1>3, <1>5

\* What a step may do to the QoS 1 publishes: nothing; one is sent; one reaches the
\* server; the server acknowledges one; its acknowledgement ends it.
Calm ==
    /\ Kept(wire, wire', Publishes1) /\ Kept(exchanges, exchanges', Duties1)
    /\ Kept(toClient, toClient', Pubacks) /\ Kept(inflight, inflight', Flights1)
Departs(m) ==
    /\ Joined(wire, wire', Publishes1, m) /\ Joined(inflight, inflight', Flights1, m)
    /\ Kept(exchanges, exchanges', Duties1) /\ Kept(toClient, toClient', Pubacks)
    /\ \A k \in Afloat : k.op < m.op
Reaches(m) ==
    /\ Left(wire, wire', Publishes1, m) /\ Joined(exchanges, exchanges', Duties1, m)
    /\ Kept(toClient, toClient', Pubacks) /\ Kept(inflight, inflight', Flights1)
IsAnswered(m) ==
    /\ Left(exchanges, exchanges', Duties1, m) /\ Joined(toClient, toClient', Pubacks, m)
    /\ Kept(wire, wire', Publishes1) /\ Kept(inflight, inflight', Flights1)
Ends(m) ==
    /\ Left(toClient, toClient', Pubacks, m)
    /\ Kept(wire, wire', Publishes1) /\ Kept(exchanges, exchanges', Duties1)
    /\ Marks(inflight, Flights1) = Marks(inflight', Flights1) \cup {m}
    /\ m \notin Marks(inflight', Flights1)

LEMMA TurnMoves ==
    ASSUME IInv, OrderlyInv, PairedInv,
           Calm \/ \E m : Departs(m) \/ Reaches(m) \/ IsAnswered(m) \/ Ends(m)
    PROVE  OrderlyInv' /\ PairedInv'
<1>1. /\ Going = Marks(wire, Publishes1) /\ Going' = Marks(wire', Publishes1)
      /\ Due = Marks(exchanges, Duties1) /\ Due' = Marks(exchanges', Duties1)
      /\ Acked = Marks(toClient, Pubacks) /\ Acked' = Marks(toClient', Pubacks)
      /\ Afloat = Marks(inflight, Flights1) /\ Afloat' = Marks(inflight', Flights1)
  BY DEF Going, Due, Acked, Afloat, Publishes1, Duties1, Pubacks, Flights1
<1> DEFINE W == Ordered(wire', Publishes1)
           X == Ordered(exchanges', Duties1)
           C == Ordered(toClient', Pubacks)
<1>2. W /\ X /\ C /\ (\A a \in Acked', d \in Due' : a.op < d.op)
        /\ (\A a \in Acked', g \in Going' : a.op < g.op)
        /\ (\A d \in Due', g \in Going' : d.op < g.op)
      => OrderlyInv'
  BY DEF OrderlyInv, Publishes1, Duties1, Pubacks
<1>3. /\ Going \cup Due \cup Acked = Afloat
      /\ Ordered(wire, Publishes1) /\ Ordered(exchanges, Duties1) /\ Ordered(toClient, Pubacks)
      /\ \A a \in Acked, d \in Due : a.op < d.op
      /\ \A a \in Acked, g \in Going : a.op < g.op
      /\ \A d \in Due, g \in Going : d.op < g.op
  BY DEF OrderlyInv, PairedInv
<1>4. CASE Calm
  <2>1. Going' = Going /\ Due' = Due /\ Acked' = Acked /\ Afloat' = Afloat /\ W /\ X /\ C
    BY <1>1, <1>3, <1>4 DEF Calm, Kept
  <2>2. QED BY <1>2, <1>3, <2>1 DEF PairedInv
<1>5. ASSUME NEW m, Departs(m) PROVE OrderlyInv' /\ PairedInv'
  <2>1. Going' = Going \cup {m} /\ Due' = Due /\ Acked' = Acked /\ Afloat' = Afloat \cup {m}
    BY <1>1, <1>5 DEF Departs, Kept, Joined
  <2>2. (\A k \in Going : k.op < m.op) /\ (\A k \in Due : k.op < m.op) /\ (\A k \in Acked : k.op < m.op)
    BY <1>3, <1>5 DEF Departs
  <2>3. W /\ X /\ C
    BY <1>1, <1>3, <1>5, <2>2 DEF Departs, Kept, Joined
  <2>4. OrderlyInv'
    <3> HIDE DEF W, X, C
    <3>1. QED BY <1>2, <1>3, <2>1, <2>2, <2>3
  <2>5. QED BY <1>3, <2>1, <2>4 DEF PairedInv
<1>6. ASSUME NEW m, Reaches(m) PROVE OrderlyInv' /\ PairedInv'
  <2>1. Going = Going' \cup {m} /\ Due' = Due \cup {m} /\ Acked' = Acked /\ Afloat' = Afloat
    BY <1>1, <1>6 DEF Reaches, Kept, Joined, Left
  <2>2. /\ \A k \in Due : k.op < m.op
        /\ \A k \in Acked : k.op < m.op
        /\ \A g \in Going' : m.op < g.op
    BY <1>1, <1>3, <1>6, <2>1 DEF Reaches, Left
  <2>3. W /\ X /\ C
    BY <1>1, <1>3, <1>6, <2>2 DEF Reaches, Kept, Joined, Left
  <2>4. OrderlyInv'
    <3> HIDE DEF W, X, C
    <3>1. QED BY <1>2, <1>3, <2>1, <2>2, <2>3
  <2>5. QED BY <1>3, <2>1, <2>4 DEF PairedInv
<1>7. ASSUME NEW m, IsAnswered(m) PROVE OrderlyInv' /\ PairedInv'
  <2>1. Going' = Going /\ Due = Due' \cup {m} /\ Acked' = Acked \cup {m} /\ Afloat' = Afloat
    BY <1>1, <1>7 DEF IsAnswered, Kept, Joined, Left
  <2>2. /\ \A k \in Acked : k.op < m.op
        /\ \A d \in Due' : m.op < d.op
        /\ \A g \in Going : m.op < g.op
    BY <1>1, <1>3, <1>7, <2>1 DEF IsAnswered, Left
  <2>3. W /\ X /\ C
    BY <1>1, <1>3, <1>7, <2>2 DEF IsAnswered, Kept, Joined, Left
  <2>4. OrderlyInv'
    <3> HIDE DEF W, X, C
    <3>1. QED BY <1>2, <1>3, <2>1, <2>2, <2>3
  <2>5. QED BY <1>3, <2>1, <2>4 DEF PairedInv
<1>8. ASSUME NEW m, Ends(m) PROVE OrderlyInv' /\ PairedInv'
  <2>1. /\ Going' = Going /\ Due' = Due /\ Acked = Acked' \cup {m} /\ Afloat = Afloat' \cup {m}
        /\ m \notin Afloat'
    BY <1>1, <1>8 DEF Ends, Kept, Left
  <2>2. /\ \A a \in Acked' : m.op < a.op
        /\ \A d \in Due : m.op < d.op
        /\ \A g \in Going : m.op < g.op
    BY <1>1, <1>3, <1>8, <2>1 DEF Ends, Left
  <2>3. W /\ X /\ C
    BY <1>1, <1>3, <1>8 DEF Ends, Kept, Left
  <2>4. m \notin Going /\ m \notin Due /\ m \notin Acked'
    <3>1. m \in Afloat
      BY <2>1
    <3>2. m.op \in 1 .. Len(sent)
      BY <3>1, FlightOps DEF Afloat
    <3>3. ~(m.op < m.op)
      BY <3>2
    <3>4. QED BY <2>2, <3>3
  <2>5. OrderlyInv'
    <3> HIDE DEF W, X, C
    <3>1. QED BY <1>2, <1>3, <2>1, <2>3
  <2>6. QED BY <1>3, <2>1, <2>4, <2>5 DEF PairedInv
<1>9. QED BY <1>4, <1>5, <1>6, <1>7, <1>8

LEMMA KeptSame == \A s, T : Kept(s, s, T)
BY DEF Kept

\* What belongs to QoS 1.
LEMMA QosKinds ==
    /\ \A p \in Packet : p \in Publishes1 <=> p.type = "publish" /\ p.qos = 1
    /\ \A x \in Exchange : x \in Duties1 <=> x.stage = "ack_due"
    /\ \A p \in Acknowledgement : p \in Pubacks <=> p.type = "puback"
    /\ \A p \in Connack : p \notin Pubacks
    /\ \A e \in InFlight : e \in Flights1 <=> e.qos = 1
BY DEF Publishes1, Duties1, Pubacks, Flights1, Connack

\* A publish is sent over the open socket.
LEMMA SendsTurn ==
    ASSUME IInv, NEW m, Sends(m), open', UNCHANGED <<toClient, exchanges>>
    PROVE  Calm \/ Departs(Mark(m))
<1>1. /\ m \in Message /\ m.op = Len(sent) + 1 /\ Len(sent) \in Nat
      /\ inflight' = Append(inflight, Flying(m)) /\ inflight \in Seq(InFlight)
      /\ wire' = Append(wire, PublishPacket(m)) /\ wire \in Seq(Packet)
  BY Lengths DEF Sends, IInv, TypeOK
<1>2. /\ Flying(m) \in InFlight /\ Flying(m).qos = m.qos /\ Mark(Flying(m)) = Mark(m)
      /\ PublishPacket(m) \in Packet /\ PublishPacket(m).type = "publish"
      /\ PublishPacket(m).qos = m.qos /\ Mark(PublishPacket(m)) = Mark(m) /\ Mark(m).op = m.op
  BY <1>1, Entrance, PublishPackets DEF Mark
<1>3. Kept(toClient, toClient', Pubacks) /\ Kept(exchanges, exchanges', Duties1)
  BY KeptSame
<1>4. CASE m.qos = 1
  <2>1. Flying(m) \in Flights1 /\ PublishPacket(m) \in Publishes1
    BY <1>2, <1>4, QosKinds
  <2>2. Joined(wire, wire', Publishes1, Mark(m))
    BY ONLY <1>1, <1>2, <2>1, MarkAppended
  <2>3. Joined(inflight, inflight', Flights1, Mark(m))
    BY ONLY <1>1, <1>2, <2>1, MarkAppended
  <2>4. \A k \in Afloat : k.op < Mark(m).op
    BY <1>1, <1>2, FlightOps DEF Afloat
  <2>5. QED BY <1>3, <2>2, <2>3, <2>4 DEF Departs
<1>5. CASE m.qos # 1
  <2>1. Flying(m) \notin Flights1 /\ PublishPacket(m) \notin Publishes1
    BY <1>2, <1>5, QosKinds
  <2>2. Kept(wire, wire', Publishes1)
    BY ONLY <1>1, <1>2, <2>1, MarkAppended
  <2>3. Kept(inflight, inflight', Flights1)
    BY ONLY <1>1, <1>2, <2>1, MarkAppended
  <2>4. QED BY <1>3, <2>2, <2>3 DEF Calm
<1>6. QED BY <1>4, <1>5

LEMMA UserTurn ==
    ASSUME IInv, User, UNCHANGED <<toClient, exchanges>>, open'
    PROVE  Calm \/ \E m : Departs(m)
<1>1. /\ wire \in Seq(Packet)
      /\ Kept(toClient, toClient', Pubacks) /\ Kept(exchanges, exchanges', Duties1)
  BY KeptSame DEF IInv, TypeOK
<1>2. CASE PublishQos0
  <2> DEFINE p == PublishPacket([op |-> 0, qos |-> 0, id |-> 0])
  <2>1. p \in Packet /\ p.qos = 0
    BY BoundsAssumption, U16MaxAssumption DEF PublishPacket, Packet, U16
  <2>2. wire' = Append(wire, p) /\ inflight' = inflight
    BY <1>2 DEF PublishQos0, SendMessage
  <2> HIDE DEF p
  <2>3. p \notin Publishes1
    BY <2>1, QosKinds
  <2>4. Kept(wire, wire', Publishes1)
    BY ONLY <1>1, <2>1, <2>2, <2>3, MarkAppended
  <2>5. QED BY <1>1, <2>2, <2>4, KeptSame DEF Calm
<1>3. CASE TakeRequestIdentifier
  BY <1>1, <1>3, KeptSame DEF TakeRequestIdentifier, Calm
<1>4. ASSUME NEW qos \in QosLevels, Publish(qos) PROVE Calm \/ \E m : Departs(m)
  <2>1. \E m : Sends(m) \/ UNCHANGED <<inflight, wire>>
    BY <1>4, PublishSends
  <2>2. QED BY <1>1, <2>1, SendsTurn, KeptSame DEF Calm
<1>5. QED BY <1>2, <1>3, <1>4 DEF User

LEMMA ReturnTurn ==
    ASSUME IInv, Return, UNCHANGED <<toClient, exchanges>>, open'
    PROVE  Calm \/ \E m : Departs(m)
<1>1. Kept(toClient, toClient', Pubacks) /\ Kept(exchanges, exchanges', Duties1)
  BY KeptSame
<1>2. MaybeSendQueuedPublish
  BY DEF Return, PubackReturn, PubrecReturn
<1>3. (\E m : Sends(m)) \/ UNCHANGED <<inflight, wire>>
  BY <1>2, MaybeSendSends
<1>4. QED BY <1>1, <1>3, SendsTurn, KeptSame DEF Calm

\* What the server acknowledges is in flight.
LEMMA NeverUnknown ==
    ASSUME TypeOK, SessionTypeOK, TokenInv, NEW p \in Acknowledgement, p \in ToSet(toClient)
    PROVE  ~Unknown(p.id)
<1>1. inflight \in Seq(InFlight) /\ DOMAIN inflight = 1 .. Len(inflight)
  BY LenProperties DEF TypeOK
<1>2. PICK e \in ToSet(inflight) : e.id = p.id
  BY KnownAck
<1>3. PICK i \in 1 .. Len(inflight) : e = inflight[i]
  BY <1>1, ToSetMembers
<1>4. QED BY <1>1, <1>2, <1>3 DEF Unknown

\* A PUBACK is for the oldest QoS 1 publish in flight, and finds it.
LEMMA PubackTurn ==
    ASSUME IInv, SessionTypeOK, SharedInv, InOrderInv, OrderlyInv, PairedInv, toClient # <<>>,
           toClient' = Tail(toClient), NEW p \in Acknowledgement, p = Head(toClient), p.type = "puback",
           NEW i \in DOMAIN inflight, IsFirst(i, p.id), inflight[i].state = "waiting_puback"
    PROVE  /\ Left(toClient, toClient', Pubacks, Mark(p))
           /\ inflight[i] \in Flights1 /\ Mark(inflight[i]) = Mark(p)
           /\ \A f \in ToSet(inflight) : f.qos = 1 => f = inflight[i] \/ inflight[i].op < f.op
<1>1. /\ inflight \in Seq(InFlight) /\ i \in 1 .. Len(inflight) /\ toClient \in Seq(ServerPacket)
      /\ p \in Pubacks
  BY Lengths, QosKinds DEF IInv, TypeOK, SessionTypeOK
<1>2. Left(toClient, toClient', Pubacks, Mark(p))
  BY <1>1, MarkGone
<1>3. /\ Acked = Marks(toClient', Pubacks) \cup {Mark(p)}
      /\ \A k \in Marks(toClient', Pubacks) : Mark(p).op < k.op
  BY <1>2 DEF Left, Acked, OrderlyInv
<1>4. \A k \in Afloat : k = Mark(p) \/ Mark(p).op < k.op
  BY <1>3 DEF OrderlyInv, PairedInv
<1>5. inflight[i] \in InFlight /\ inflight[i] \in ToSet(inflight)
  BY <1>1, ElementOfSeq, ToSetMembers
<1>6. inflight[i] \in Flights1 /\ Mark(inflight[i]) \in Afloat
  BY <1>1, <1>5, QosKinds, MarkPositions DEF SharedInv, Afloat
<1>7. PICK k \in 1 .. Len(inflight) : inflight[k] \in Flights1 /\ Mark(inflight[k]) = Mark(p)
  <2>1. Mark(p) \in Marks(inflight, Flights1)
    BY <1>3 DEF PairedInv, Afloat
  <2>2. QED BY ONLY <1>1, <2>1, MarkPositions
<1>8. ~(k < i)
  <2>1. inflight[k].id = p.id
    BY <1>7 DEF Mark
  <2>2. k < i => k \in 1 .. i - 1
    BY <1>1, LenProperties
  <2>3. QED BY <2>1, <2>2 DEF IsFirst
<1>9. ~(inflight[k].op < inflight[i].op)
  <2>1. k = i \/ i < k
    BY <1>1, <1>8
  <2>2. inflight[k] \in InFlight /\ inflight[i].op \in Nat /\ inflight[k].op \in Nat
    <3>1. inflight[k] \in InFlight /\ inflight[k] \in ToSet(inflight)
      BY <1>1, ElementOfSeq, ToSetMembers
    <3>2. inflight[i].op \in 1 .. Len(sent) /\ inflight[k].op \in 1 .. Len(sent)
      BY <1>5, <3>1, FlightOps
    <3>3. QED BY <3>1, <3>2
  <2>3. i < k => inflight[i].op < inflight[k].op
    BY <1>1, <1>5, <2>2 DEF InOrderInv, Ordered
  <2>4. QED BY <2>1, <2>2, <2>3
<1>10. Mark(inflight[i]) = Mark(p)
  <2>1. Mark(p).op = inflight[k].op /\ Mark(inflight[i]).op = inflight[i].op
    BY <1>7 DEF Mark
  <2>2. QED BY <1>4, <1>6, <1>9, <2>1
<1>11. ASSUME NEW f \in ToSet(inflight), f.qos = 1 PROVE f = inflight[i] \/ inflight[i].op < f.op
  <2>1. f \in Flights1 /\ Mark(f) \in Afloat
    BY <1>11, FlightOps, QosKinds DEF Afloat, Marks
  <2>2. Mark(f) = Mark(inflight[i]) => f = inflight[i]
    BY <1>5, FlightOps DEF Mark
  <2>3. Mark(f).op = f.op /\ Mark(inflight[i]).op = inflight[i].op
    BY DEF Mark
  <2>4. QED BY <1>4, <1>10, <2>1, <2>2, <2>3
<1>12. QED BY <1>2, <1>6, <1>10, <1>11

\* Any other acknowledgement that finishes a publish finishes one with QoS 2.
LEMMA OtherAckTurn ==
    ASSUME IInv, SessionTypeOK, SharedInv, TokenInv, SharedOnlyByQos2, Ample, Healthy,
           NEW p \in Acknowledgement, p \in ToSet(toClient), p.type # "puback",
           NEW i \in DOMAIN inflight, IsFirst(i, p.id)
    PROVE  inflight[i] \notin Flights1
<1>1. /\ TypeOK /\ inflight \in Seq(InFlight) /\ i \in 1 .. Len(inflight)
      /\ DOMAIN inflight = 1 .. Len(inflight)
  BY Lengths DEF IInv, TypeOK
<1>2. PICK e \in ToSet(inflight) : e \in EntriesOf(p.id, {2})
  BY <1>1, KnownAck
<1>3. PICK k \in 1 .. Len(inflight) : e = inflight[k]
  BY <1>1, ToSetMembers
<1>4. inflight[k].id = p.id /\ inflight[k].qos = 2
  BY <1>2, <1>3 DEF EntriesOf
<1>5. inflight[i].id = p.id
  BY DEF IsFirst
<1>6. ~(k < i)
  <2>1. k < i => k \in 1 .. i - 1
    BY <1>1, LenProperties
  <2>2. QED BY <1>4, <2>1 DEF IsFirst
<1>7. inflight[i].qos = 2
  <2>1. i < k => inflight[i].qos = 2
    BY <1>1, <1>4, <1>5 DEF SharedOnlyByQos2, Ample
  <2>2. i = k \/ i < k
    BY <1>1, <1>6
  <2>3. QED BY <1>4, <2>1, <2>2
<1>8. QED BY <1>7 DEF Flights1

LEMMA ClientTurn ==
    ASSUME IInv, SessionTypeOK, SharedInv, TokenInv, InOrderInv, SharedOnlyByQos2,
           Ample, Healthy, OrderlyInv, PairedInv, ClientReceive, Healthy'
    PROVE  Calm \/ \E m : Ends(m)
<1>1. /\ TypeOK /\ inflight \in Seq(InFlight) /\ wire \in Seq(Packet) /\ toClient \in Seq(ServerPacket)
      /\ toClient # <<>> /\ toClient' = Tail(toClient) /\ exchanges' = exchanges
      /\ Head(toClient) \in ToSet(toClient) /\ Head(toClient) \in ServerPacket
      /\ Kept(exchanges, exchanges', Duties1)
      /\ DOMAIN inflight = 1 .. Len(inflight)
  <2>1. toClient \in Seq(ServerPacket) /\ toClient # <<>>
    BY ClientReceives DEF SessionTypeOK, Received
  <2>2. Head(toClient) \in ToSet(toClient) /\ Head(toClient) \in ServerPacket
    BY ONLY <2>1, ToSetProperties
  <2>3. QED BY <2>1, <2>2, ClientReceives, KeptSame, Lengths DEF IInv, TypeOK, Received
<1>2. Head(toClient) \notin Pubacks => Kept(toClient, toClient', Pubacks)
  BY <1>1, MarkGone
<1>3. ASSUME NEW rm \in ReceiveMaxima, ReceiveConnack(rm) PROVE Calm
  <2>1. Head(toClient) \notin Pubacks /\ UNCHANGED <<wire, inflight>>
    BY <1>3 DEF ReceiveConnack, HandleConnack, Pubacks
  <2>2. QED BY <1>1, <1>2, <2>1, KeptSame DEF Calm
<1>4. ASSUME NEW p \in Acknowledgement, ReceiveUnknown(p) PROVE FALSE
  BY <1>1, <1>4, NeverUnknown DEF ReceiveUnknown
<1>5. ASSUME NEW p \in Acknowledgement, ReceivePuback(p) PROVE Ends(Mark(p))
  <2>1. p = Head(toClient) /\ p.type = "puback" /\ wire' = wire
    BY <1>5 DEF ReceivePuback, HandlePuback
  <2>2. PICK i \in DOMAIN inflight :
          IsFirst(i, p.id) /\ inflight[i].state = "waiting_puback" /\ inflight' = RemoveAt(inflight, i)
    BY <1>5 DEF ReceivePuback, HandlePuback, Finish, Healthy
  <2>3. /\ Left(toClient, toClient', Pubacks, Mark(p))
        /\ inflight[i] \in Flights1 /\ Mark(inflight[i]) = Mark(p)
        /\ \A f \in ToSet(inflight) : f.qos = 1 => f = inflight[i] \/ inflight[i].op < f.op
    BY <1>1, <2>1, <2>2, PubackTurn
  <2>4. ToSet(inflight) = ToSet(inflight') \cup {inflight[i]}
    BY <1>1, <2>2, Moves DEF Lost
  <2>5. Marks(inflight, Flights1) = Marks(inflight', Flights1) \cup {Mark(p)}
    BY <2>3, <2>4 DEF Marks
  <2>6. Mark(p) \notin Marks(inflight', Flights1)
    <3>1. /\ inflight' \in Seq(InFlight)
          /\ \A j \in 1 .. Len(inflight') : /\ Before(j, i) \in 1 .. Len(inflight) /\ Before(j, i) # i
                                            /\ inflight'[j] = inflight[Before(j, i)]
      BY <1>1, <2>2, Erased
    <3>2. \A j \in 1 .. Len(inflight') : inflight'[j].op # inflight[i].op
      BY <1>1, <3>1 DEF IInv, HeldInv
    <3>3. \A j \in 1 .. Len(inflight') : Mark(inflight'[j]) # Mark(p)
      BY <2>3, <3>2 DEF Mark
    <3>4. QED BY <3>1, <3>3, MarkPositions
  <2>7. QED BY <1>1, <2>1, <2>3, <2>5, <2>6, KeptSame DEF Ends
<1>6. ASSUME NEW p \in Acknowledgement, ReceivePubrec(p) PROVE Calm
  <2>1. p = Head(toClient) /\ p.type = "pubrec" /\ HandlePubrec(p.id) /\ p.id \in U16
    BY <1>6 DEF ReceivePubrec, Acknowledgement
  <2>2. \A e \in InFlight : e.state # "waiting_puback" =>
          (e \in Flights1 <=> [e EXCEPT !.state = "waiting_pubcomp"] \in Flights1)
    <3> SUFFICES ASSUME NEW e \in InFlight
                 PROVE  e \in Flights1 <=> [e EXCEPT !.state = "waiting_pubcomp"] \in Flights1
      OBVIOUS
    <3> DEFINE f == [e EXCEPT !.state = "waiting_pubcomp"]
    <3>1. f \in InFlight /\ f.qos = e.qos
      BY EntryKinds
    <3> HIDE DEF f
    <3>2. f \in Flights1 <=> e \in Flights1
      BY <3>1, QosKinds
    <3>3. QED BY <3>2 DEF f
  <2>3. Kept(inflight, inflight', Flights1)
    BY <2>1, <2>2, PubrecKeeps
  <2>4. Kept(wire, wire', Publishes1)
    <3>1. PubrelPacket(p.id, TRUE) \in Packet /\ PubrelPacket(p.id, TRUE) \notin Publishes1
      BY <2>1, PubrelPackets DEF Publishes1
    <3>2. wire' = wire \/ wire' = Append(wire, PubrelPacket(p.id, TRUE))
      BY <2>1, PubrecKeeps
    <3>3. QED BY ONLY <1>1, <3>1, <3>2, MarkAppended, KeptSame
  <2>5. p \notin Pubacks
    BY <2>1 DEF Pubacks
  <2>6. QED BY <1>1, <1>2, <2>1, <2>3, <2>4, <2>5 DEF Calm
<1>7. ASSUME NEW p \in Acknowledgement,
             ReceiveMismatch(p) \/ ReceiveRefused(p) \/ ReceivePubcomp(p)
      PROVE  Calm
  <2>1. p = Head(toClient) /\ p.type # "puback" /\ wire' = wire
    BY <1>7 DEF ReceiveMismatch, ReceiveRefused, ReceivePubcomp, HandlePubrecMismatch,
                HandlePubrecError, HandlePubcomp
  <2>2. PICK i \in DOMAIN inflight : IsFirst(i, p.id) /\ inflight' = RemoveAt(inflight, i)
    BY <1>7 DEF ReceiveMismatch, ReceiveRefused, ReceivePubcomp, HandlePubrecMismatch,
                HandlePubrecError, HandlePubcomp, Finish
  <2>3. inflight[i] \notin Flights1
    BY <1>1, <2>1, <2>2, OtherAckTurn
  <2>4. Kept(inflight, inflight', Flights1)
    BY <1>1, <2>2, <2>3, MarkGone
  <2>5. p \notin Pubacks
    BY <2>1 DEF Pubacks
  <2>6. QED BY <1>1, <1>2, <2>1, <2>4, <2>5, KeptSame DEF Calm
<1>8. QED BY <1>3, <1>4, <1>5, <1>6, <1>7, ClientReceives

\* An exchange of a publish with QoS 2 goes on.
LEMMA StagedKept ==
    ASSUME SessionTypeOK, NEW i \in DOMAIN exchanges, exchanges[i].stage # "ack_due",
           NEW stage \in Stages \ {"ack_due"}
    PROVE  Kept(exchanges, Staged(i, stage), Duties1)
<1>1. /\ exchanges \in Seq(Exchange) /\ i \in 1 .. Len(exchanges)
      /\ exchanges[i] \in Exchange
  BY LenProperties, ElementOfSeq DEF SessionTypeOK
<1> DEFINE y == [exchanges[i] EXCEPT !.stage = stage]
<1>2. /\ y \in Exchange /\ y.op = exchanges[i].op /\ y.id = exchanges[i].id
      /\ y \notin Duties1 /\ exchanges[i] \notin Duties1
  BY <1>1 DEF Exchange, Duties1
<1>3. Staged(i, stage) = [exchanges EXCEPT ![i] = y]
  BY DEF Staged
<1> HIDE DEF y
<1>4. y \in Duties1 <=> exchanges[i] \in Duties1
  BY <1>2
<1>5. Kept(exchanges, [exchanges EXCEPT ![i] = y], Duties1)
  BY ONLY <1>1, <1>2, <1>4, MarkReplaced
<1>6. QED BY <1>3, <1>5

\* The server takes what it gets in order.
LEMMA ReceiveTurn ==
    ASSUME TypeOK, SessionTypeOK, ServerReceive
    PROVE  Calm \/ \E m : Reaches(m)
<1> DEFINE p == Head(wire)
<1>1. /\ wire \in Seq(Packet) /\ wire # <<>> /\ wire' = Tail(wire) /\ exchanges \in Seq(Exchange)
      /\ UNCHANGED <<inflight, toClient>>
  BY DEF ServerReceive, Transmit, TypeOK, SessionTypeOK
<1>2. p \in Packet
  BY <1>1, Moves
<1>3. p.id \in U16 /\ (p.type = "publish" => p.op \in 0 .. MaxPublishes)
  BY <1>2, PacketKinds
<1>4. \/ p.type = "publish" /\ p.qos = 1 /\ exchanges' = Opened(p, "ack_due")
      \/ /\ p \notin Publishes1
         /\ \/ exchanges' = exchanges
            \/ p.type = "publish" /\ exchanges' = Opened(p, "rec_due")
            \/ exchanges' = Opened([op |-> 0, id |-> p.id], "comp_due")
            \/ \E i \in DOMAIN exchanges : /\ exchanges[i].stage = "await_rel"
                                           /\ exchanges' \in {Staged(i, "rec_due"), Staged(i, "comp_due")}
  BY DEF ServerReceive, AwaitingRel, Publishes1
<1>5. /\ p \in Publishes1 => Left(wire, wire', Publishes1, Mark(p))
      /\ p \notin Publishes1 => Kept(wire, wire', Publishes1)
  BY <1>1, MarkGone
<1> HIDE DEF p
<1>6. \A x \in Exchange : /\ x \notin Duties1 => Kept(exchanges, Append(exchanges, x), Duties1)
                          /\ x \in Duties1 => Joined(exchanges, Append(exchanges, x), Duties1, Mark(x))
  BY <1>1, MarkAppended
<1>7. CASE p.type = "publish" /\ p.qos = 1 /\ exchanges' = Opened(p, "ack_due")
  <2> DEFINE x == [op |-> p.op, id |-> p.id, stage |-> "ack_due"]
  <2>1. x \in Exchange /\ x \in Duties1 /\ Mark(x) = Mark(p)
    BY <1>3, <1>7 DEF Exchange, Stages, Duties1, Mark
  <2>2. exchanges' = Append(exchanges, x)
    BY <1>7 DEF Opened
  <2> HIDE DEF x
  <2>3. p \in Publishes1
    BY <1>2, <1>7, QosKinds
  <2>4. Reaches(Mark(p))
    BY <1>1, <1>5, <1>6, <2>1, <2>2, <2>3, KeptSame DEF Reaches
  <2>5. QED BY <2>4
<1>8. CASE p \notin Publishes1 /\ exchanges' = exchanges
  BY <1>1, <1>5, <1>8, KeptSame DEF Calm
<1>9. ASSUME NEW x \in Exchange, x.stage # "ack_due", exchanges' = Append(exchanges, x),
             p \notin Publishes1
      PROVE  Calm
  <2>1. x \notin Duties1
    BY <1>9 DEF Duties1
  <2>2. QED BY <1>1, <1>5, <1>6, <1>9, <2>1, KeptSame DEF Calm
<1>10. ASSUME p.type = "publish", exchanges' = Opened(p, "rec_due"), p \notin Publishes1
       PROVE  Calm
  <2>1. [op |-> p.op, id |-> p.id, stage |-> "rec_due"] \in Exchange
    BY <1>3, <1>10 DEF Exchange, Stages
  <2>2. QED BY <1>9, <1>10, <2>1 DEF Opened
<1>11. ASSUME exchanges' = Opened([op |-> 0, id |-> p.id], "comp_due"), p \notin Publishes1
       PROVE  Calm
  <2>1. [op |-> 0, id |-> p.id, stage |-> "comp_due"] \in Exchange
    BY <1>3, BoundsAssumption DEF Exchange, Stages
  <2>2. QED BY <1>9, <1>11, <2>1 DEF Opened
<1>12. ASSUME NEW i \in DOMAIN exchanges, exchanges[i].stage = "await_rel", p \notin Publishes1,
              NEW stage \in {"rec_due", "comp_due"}, exchanges' = Staged(i, stage)
       PROVE  Calm
  <2>1. stage \in Stages \ {"ack_due"}
    BY DEF Stages
  <2>2. Kept(exchanges, exchanges', Duties1)
    BY <1>12, <2>1, StagedKept
  <2>3. QED BY <1>1, <1>5, <1>12, <2>2, KeptSame DEF Calm
<1>13. QED BY <1>4, <1>7, <1>8, <1>10, <1>11, <1>12

\* The server answers in order.
LEMMA AnswerTurn ==
    ASSUME TypeOK, SessionTypeOK, ServerAnswer
    PROVE  Calm \/ \E m : IsAnswered(m)
<1>1. /\ exchanges \in Seq(Exchange) /\ toClient \in Seq(ServerPacket)
      /\ DOMAIN exchanges = 1 .. Len(exchanges) /\ UNCHANGED <<wire, inflight>>
  BY LenProperties DEF SessionTypeOK, ServerAnswer, vars
<1>2. \A i \in 1 .. Len(exchanges) : exchanges[i] \in Exchange
  BY <1>1, ElementOfSeq
<1>3. Kept(wire, wire', Publishes1) /\ Kept(inflight, inflight', Flights1)
  BY <1>1, KeptSame
<1>4. ASSUME NEW p \in Acknowledgement, toClient' = Append(toClient, p)
      PROVE  /\ p.type # "puback" => Kept(toClient, toClient', Pubacks)
             /\ p.type = "puback" => Joined(toClient, toClient', Pubacks, Mark(p))
  <2>1. p \in ServerPacket /\ (p \in Pubacks <=> p.type = "puback")
    BY QosKinds DEF ServerPacket
  <2>2. QED BY <1>1, <1>4, <2>1, MarkAppended
<1>5. \A type \in {"puback", "pubrec", "refused", "pubcomp"} : \A x \in Exchange :
        Ack(type, x) \in Acknowledgement /\ Ack(type, x).type = type /\ Mark(Ack(type, x)) = Mark(x)
  BY DEF Ack, Acknowledgement, Exchange, Mark
<1>6. ASSUME NEW i \in 1 .. Len(exchanges), Oldest(i, "ack_due"), Answer(i, "puback"), Over(i)
      PROVE  IsAnswered(Mark(exchanges[i]))
  <2>1. exchanges[i] \in Duties1 /\ \A j \in 1 .. i - 1 : exchanges[j] \notin Duties1
    BY <1>2, <1>6, QosKinds DEF Oldest, Duties1
  <2>2. Left(exchanges, exchanges', Duties1, Mark(exchanges[i]))
    BY <1>1, <1>6, <2>1, MarkGone DEF Over
  <2>3. Joined(toClient, toClient', Pubacks, Mark(exchanges[i]))
    <3>1. PICK p : p = Ack("puback", exchanges[i])
      OBVIOUS
    <3>2. p \in Acknowledgement /\ p.type = "puback" /\ Mark(p) = Mark(exchanges[i])
      BY <1>2, <1>5, <3>1
    <3>3. toClient' = Append(toClient, p)
      BY <1>6, <3>1 DEF Answer
    <3>4. QED BY <1>4, <3>2, <3>3
  <2>4. QED BY <1>3, <2>2, <2>3 DEF IsAnswered
<1>7. ASSUME NEW i \in 1 .. Len(exchanges), exchanges[i].stage # "ack_due",
             NEW type \in {"pubrec", "refused", "pubcomp"}, Answer(i, type),
             Over(i) \/ exchanges' = Staged(i, "await_rel")
      PROVE  Calm
  <2>1. Kept(exchanges, exchanges', Duties1)
    <3>1. exchanges[i] \notin Duties1
      BY <1>7 DEF Duties1
    <3>2. Over(i) => Kept(exchanges, exchanges', Duties1)
      BY <1>1, <3>1, MarkGone DEF Over
    <3>3. "await_rel" \in Stages \ {"ack_due"}
      BY DEF Stages
    <3>4. exchanges' = Staged(i, "await_rel") => Kept(exchanges, exchanges', Duties1)
      BY <1>1, <1>7, <3>3, StagedKept
    <3>5. QED BY <1>7, <3>2, <3>4
  <2>2. Kept(toClient, toClient', Pubacks)
    <3>1. PICK p : p = Ack(type, exchanges[i])
      OBVIOUS
    <3>2. p \in Acknowledgement /\ p.type # "puback"
      BY <1>2, <1>5, <3>1
    <3>3. toClient' = Append(toClient, p)
      BY <1>7, <3>1 DEF Answer
    <3>4. QED BY <1>4, <3>2, <3>3
  <2>3. QED BY <1>3, <2>1, <2>2 DEF Calm
<1>8. QED BY <1>1, <1>6, <1>7 DEF ServerAnswer, SendPuback, SendPubrec, SendPubcomp, Oldest

\* Whatever the step, publishes with QoS 1 are acknowledged in their turn.
LEMMA TurnStep ==
    ASSUME SessionIInv, InOrderInv, SharedOnlyByQos2, TurnInv, TypeOK', [SessionNext]_sessionVars
    PROVE  TurnInv'
<1>1. /\ IInv /\ TypeOK /\ SessionTypeOK /\ SharedInv /\ TokenInv /\ [Next]_vars
  BY SessionStep DEF SessionIInv, IInv
<1>2. SUFFICES ASSUME Ample', Healthy' PROVE OrderlyInv' /\ PairedInv'
  BY DEF TurnInv
<1>3. Ample /\ open'
  BY <1>1, <1>2, AmpleStep DEF Ample
<1>4. ASSUME Healthy, Calm \/ \E m : Departs(m) \/ Reaches(m) \/ IsAnswered(m) \/ Ends(m)
      PROVE  OrderlyInv' /\ PairedInv'
  BY <1>1, <1>3, <1>4, TurnMoves DEF TurnInv
<1>5. CASE (User \/ Return) /\ NoteShared /\ UNCHANGED <<toClient, exchanges>>
  <2>1. Healthy
    BY <1>1, <1>2, <1>5 DEF Healthy, User, PublishQos0, TakeRequestIdentifier, Publish, Return,
       PubackReturn, PubrecReturn
  <2>2. Calm \/ \E m : Departs(m)
    BY <1>1, <1>3, <1>5, UserTurn, ReturnTurn
  <2>3. QED BY <1>4, <2>1, <2>2
<1>6. CASE ClientReceive
  <2>1. Healthy
    <3>1. connected => handler # "puback_mismatch"
      BY <1>6 DEF ClientReceive, HandleConnack, HandlePuback, HandleUnknownPuback, HandlePubrec,
         HandlePubrecMismatch, HandleUnknownPubrec, HandlePubrecError, HandlePubcomp
    <3>2. ~connected => handler = "none"
      BY <1>1 DEF IInv, EarlyInv
    <3>3. QED BY <1>3, <3>1, <3>2 DEF Healthy, Ample
  <2>2. OrderlyInv /\ PairedInv
    BY <1>3, <2>1 DEF TurnInv
  <2>3. Calm \/ \E m : Ends(m)
    BY <1>1, <1>2, <1>3, <1>6, <2>1, <2>2, ClientTurn
  <2>4. QED BY <1>4, <2>1, <2>3
<1>7. CASE ServerReceive \/ ServerAnswer
  <2>1. Healthy
    BY <1>2, <1>7 DEF Healthy, ServerReceive, ServerAnswer, Transmit, vars
  <2>2. Calm \/ \E m : Reaches(m) \/ IsAnswered(m)
    BY <1>1, <1>7, ReceiveTurn, AnswerTurn
  <2>3. QED BY <1>4, <2>1, <2>2
<1>8. CASE Disconnect
  BY <1>3, <1>8 DEF Disconnect, Close
<1>9. CASE UNCHANGED sessionVars
  <2>1. Healthy /\ UNCHANGED <<wire, exchanges, toClient, inflight>>
    BY <1>2, <1>9 DEF Healthy, sessionVars, vars
  <2>2. Calm
    BY <2>1, KeptSame DEF Calm
  <2>3. QED BY <1>4, <2>1, <2>2
<1>10. QED BY <1>5, <1>6, <1>7, <1>8, <1>9 DEF SessionNext

LEMMA SpareSums ==
    /\ \A e, f, g, h, m, q, s, t \in Nat :
        (f = e \/ f = e + 1) /\ g = e + m /\ h = f + m
            /\ (s = q \/ s = q + 1) /\ (t = s \/ t = q) => t - h <= s - g
    /\ \A g, h, s, t \in Nat :
        /\ (h = g \/ h = g + 1) /\ (t = s \/ t + 1 = s) => t - h <= s - g
        /\ h = g /\ t + 1 = s => t - h <= s - g - 1
        /\ h = g + 1 /\ t = s => t - h <= s - g - 1
        /\ h = g + t /\ s = 0 => t - h <= s - g
OBVIOUS

\* Neither the quota nor the window changes.
LEMMA SpareSame ==
    ASSUME TypeOK, TypeOK', UNCHANGED <<connected, maxQuota, quota>>,
           early' = early \/ early' = early + 1,
           handler' = handler \/ handler' # "puback"
    PROVE  Spare' - Granted' <= Spare - Granted
<1>1. Numbers /\ Numbers' /\ connected \in BOOLEAN
  BY NumbersNow, NumbersNext DEF TypeOK
<1>2. /\ Granted \in Nat /\ Granted' \in Nat /\ Spare \in Nat /\ Spare' \in Nat
      /\ early \in Nat /\ early' \in Nat /\ maxQuota \in Nat /\ quota \in Nat
  BY <1>1 DEF Numbers
<1>3. CASE connected
  <2>1. Granted = early + maxQuota /\ Granted' = early' + maxQuota
    BY <1>1, <1>3 DEF Numbers
  <2>2. (Spare = quota \/ Spare = quota + 1) /\ (Spare' = Spare \/ Spare' = quota)
    BY <1>1, <1>3 DEF Numbers
  <2>3. QED BY ONLY <1>2, <2>1, <2>2, early' = early \/ early' = early + 1, SpareSums
<1>4. CASE ~connected
  <2>1. (Granted' = Granted \/ Granted' = Granted + 1) /\ Spare' = Spare
    BY <1>1, <1>4 DEF Numbers
  <2>2. QED BY ONLY <1>2, <2>1, SpareSums
<1>5. QED BY <1>1, <1>3, <1>4

\* A publisher is started.
LEMMA PublishSpan ==
    ASSUME IInv, TypeOK', SpareInv', SpanInv, Ample' => Ample, NEW qos \in QosLevels, Publish(qos)
    PROVE  SpanInv'
<1>1. TypeOK /\ Numbers /\ Numbers' /\ connected \in BOOLEAN
  BY NumbersNow, NumbersNext DEF IInv, TypeOK
<1>2. /\ UNCHANGED <<connected, maxQuota, handler>>
      /\ early' = IF connected THEN early ELSE early + 1
  BY PublishSends
<1>3. PICK m : \/ Sends(m) /\ quota' = quota - 1
               \/ UNCHANGED <<quota, inflight, sent>>
  BY PublishSends
<1>4. CASE Sends(m) /\ quota' = quota - 1
  <2>1. Spare' - Granted' <= Spare - Granted - 1
    <3>1. /\ Granted \in Nat /\ Granted' \in Nat /\ Spare \in Nat /\ Spare' \in Nat
          /\ quota \in Nat
      BY <1>1 DEF Numbers
    <3>2. CASE connected
      <4>1. Granted' = Granted
        BY <1>1, <1>2, <3>2 DEF Numbers
      <4>2. Spare' + 1 = Spare
        <5>1. CASE handler = "puback"
          BY <1>1, <1>2, <1>4, <3>1, <3>2, <5>1 DEF Numbers
        <5>2. CASE handler # "puback"
          BY <1>1, <1>2, <1>4, <3>1, <3>2, <5>2 DEF Numbers
        <5>3. QED BY <5>1, <5>2
      <4>3. QED BY ONLY <3>1, <4>1, <4>2, SpareSums
    <3>3. CASE ~connected
      <4>1. Granted' = Granted + 1 /\ Spare' = Spare
        BY <1>1, <1>2, <3>3 DEF Numbers
      <4>2. QED BY ONLY <3>1, <4>1, SpareSums
    <3>4. QED BY <1>1, <3>2, <3>3
  <2>2. QED BY <1>4, <2>1, SpanSends
<1>5. CASE UNCHANGED <<quota, inflight, sent>>
  <2>1. Spare' - Granted' <= Spare - Granted
    BY <1>1, <1>2, <1>5, SpareSame
  <2>2. QED BY <1>5, <2>1, SpanStays
<1>6. QED BY <1>3, <1>4, <1>5

\* The PUBACK handler gives its unit back, or pays for a queued publish with it.
LEMMA ReturnSpan ==
    ASSUME IInv, TypeOK', SpareInv', SpanInv, Ample' => Ample, Return
    PROVE  SpanInv'
<1>1. TypeOK /\ Numbers /\ Numbers'
  BY NumbersNow, NumbersNext DEF IInv
<1>2. SUFFICES ASSUME open' PROVE SpanInv'
  BY DEF SpanInv, Ample
<1>3. /\ handler = "puback" /\ handler' = "none" /\ MaybeSendQueuedPublish
      /\ UNCHANGED <<connected, maxQuota, early>>
  BY <1>2 DEF Return, PubackReturn, PubrecReturn
<1>4. connected
  BY <1>3 DEF IInv, EarlyInv
<1>5. /\ Granted' = Granted /\ Spare = quota + 1 /\ Spare' = quota'
      /\ Granted \in Nat /\ Granted' \in Nat /\ Spare \in Nat /\ Spare' \in Nat
  BY <1>1, <1>3, <1>4 DEF Numbers
<1>6. CASE /\ UNCHANGED <<inflight, sent>>
           /\ quota' = quota \/ quota' = quota + 1
  <2>1. Spare' = Spare \/ Spare' + 1 = Spare
    BY <1>5, <1>6
  <2>2. Spare' - Granted' <= Spare - Granted
    BY ONLY <1>5, <2>1, SpareSums
  <2>3. QED BY <1>6, <2>2, SpanStays
<1>7. CASE Sends(Head(queue)) /\ quota' = quota
  <2>1. Spare' + 1 = Spare
    BY <1>5, <1>7
  <2>2. Spare' - Granted' <= Spare - Granted - 1
    BY ONLY <1>5, <2>1, SpareSums
  <2>3. QED BY <1>7, <2>2, SpanSends
<1>8. QED BY <1>3, <1>6, <1>7, MaybeSendSends

\* A PUBACK ends the oldest of the QoS 1 publishes; the others have gone less far.
LEMMA PubackSpan ==
    ASSUME IInv, TypeOK', SessionTypeOK, SharedInv, InOrderInv, SpanInv, TurnInv,
           Ample' => Ample, NEW p \in Acknowledgement, ReceivePuback(p), Received
    PROVE  SpanInv'
<1>1. /\ TypeOK /\ Numbers /\ Numbers' /\ inflight \in Seq(InFlight)
      /\ DOMAIN inflight = 1 .. Len(inflight)
  BY NumbersNow, NumbersNext, LenProperties DEF IInv, TypeOK
<1>2. /\ p = Head(toClient) /\ p.type = "puback" /\ toClient # <<>> /\ toClient' = Tail(toClient)
      /\ connected /\ handler = "none"
      /\ UNCHANGED <<connected, open, maxQuota, quota, sent, early>>
  BY DEF ReceivePuback, HandlePuback, Received
<1>3. PICK i \in 1 .. Len(inflight) :
        /\ IsFirst(i, p.id) /\ inflight' = RemoveAt(inflight, i)
        /\ inflight[i].state = "waiting_puback" \/ handler' = "puback_mismatch"
  BY <1>1 DEF ReceivePuback, HandlePuback, Finish
<1>4. ToSet(inflight) = ToSet(inflight') \cup {inflight[i]}
  BY <1>1, <1>3, Moves DEF Lost
<1>5. CASE handler' = "puback_mismatch"
  <2>1. Spare' - Granted' <= Spare - Granted
    BY <1>1, <1>2, <1>5, SpareSame
  <2>2. \A e \in ToSet(inflight') : \E f \in ToSet(inflight) : f.op = e.op /\ f.qos = e.qos
    BY <1>4
  <2>3. QED BY <1>2, <2>1, <2>2, SpanStays
<1>6. CASE inflight[i].state = "waiting_puback"
  <2>1. SUFFICES ASSUME Ample', NEW e \in ToSet(inflight'), e.qos = 1
                 PROVE  Len(sent') - e.op + 1 + Spare' <= Granted'
    BY DEF SpanInv
  <2>2. Ample /\ Healthy
    BY <1>2, <2>1 DEF Ample, Healthy
  <2>3. /\ inflight[i] \in Flights1
        /\ \A f \in ToSet(inflight) : f.qos = 1 => f = inflight[i] \/ inflight[i].op < f.op
    BY <1>1, <1>2, <1>3, <1>6, <2>2, PubackTurn DEF TurnInv
  <2>4. inflight[i] \in ToSet(inflight) /\ inflight[i].qos = 1
    BY <1>1, <2>3, ToSetMembers DEF Flights1
  <2>5. e # inflight[i]
    <3>1. /\ inflight' \in Seq(InFlight)
          /\ \A j \in 1 .. Len(inflight') : /\ Before(j, i) \in 1 .. Len(inflight) /\ Before(j, i) # i
                                            /\ inflight'[j] = inflight[Before(j, i)]
      BY <1>1, <1>3, Erased
    <3>2. \A j \in 1 .. Len(inflight') : inflight'[j].op # inflight[i].op
      BY <1>1, <3>1 DEF IInv, HeldInv
    <3>3. QED BY <3>1, <3>2, ToSetMembers
  <2>6. inflight[i].op < e.op
    BY <1>4, <2>1, <2>3, <2>5
  <2>7. inflight[i].op \in Nat /\ e.op \in Nat
    BY <1>4, <2>4, FlightOps
  <2>8. Len(sent) - inflight[i].op + 1 + Spare <= Granted
    BY <2>2, <2>4 DEF SpanInv
  <2>9. Len(sent') = Len(sent) /\ Granted' = Granted /\ (Spare' = Spare \/ Spare' = Spare + 1)
    BY <1>1, <1>2 DEF Numbers
  <2>10. Len(sent) - e.op + 1 + (Spare + 1) <= Granted
    BY ONLY <1>1, <2>6, <2>7, <2>8, SpanSums DEF Numbers
  <2>11. Len(sent) - e.op + 1 + Spare' <= Granted
    <3>1. Granted \in Nat /\ Spare \in Nat /\ Spare' \in Nat /\ Len(sent) \in Nat
      BY <1>1 DEF Numbers
    <3>2. QED BY ONLY <2>7, <2>9, <2>10, <3>1, SpanSums
  <2>12. QED BY <2>9, <2>11
<1>7. QED BY <1>3, <1>5, <1>6

\* Whatever the step, what was sent since a QoS 1 publish fits what was granted.
LEMMA SpanStep ==
    ASSUME SessionIInv, SessionIInv', InOrderInv, SpanInv, TurnInv, [SessionNext]_sessionVars
    PROVE  SpanInv'
<1>1. /\ IInv /\ TypeOK /\ TypeOK' /\ SessionTypeOK /\ SharedInv /\ TokenInv /\ [Next]_vars
      /\ inflight \in Seq(InFlight) /\ DOMAIN inflight = 1 .. Len(inflight)
  BY SessionStep, LenProperties DEF SessionIInv, IInv, TypeOK
<1>2. SpareInv'
  BY SpareNext DEF SessionIInv, IInv
<1>3. Ample' => Ample
  BY <1>1, AmpleStep
<1>4. ASSUME UNCHANGED <<connected, maxQuota, quota, sent, early>>,
             handler' = handler \/ handler' # "puback",
             \A e \in ToSet(inflight') : \E f \in ToSet(inflight) : f.op = e.op /\ f.qos = e.qos
      PROVE  SpanInv'
  BY <1>1, <1>3, <1>4, SpareSame, SpanStays
<1>5. ASSUME UNCHANGED <<connected, maxQuota, quota, sent, early, handler, inflight>> PROVE SpanInv'
  BY <1>4, <1>5
<1>6. ASSUME NEW rm \in ReceiveMaxima, HandleConnack(rm) PROVE SpanInv'
  <2>1. /\ ~connected /\ connected' /\ maxQuota' = rm /\ quota' = rm
        /\ UNCHANGED <<early, handler, inflight, sent>>
    BY <1>6 DEF HandleConnack, history
  <2>2. handler' # "puback"
    BY <1>1, <2>1 DEF IInv, EarlyInv
  <2>3. Numbers /\ Numbers'
    BY <1>1, NumbersNow, NumbersNext
  <2>4. /\ Granted' = Granted + Spare' /\ Spare = 0
        /\ Granted \in Nat /\ Granted' \in Nat /\ Spare' \in Nat /\ Spare \in Nat
    BY <2>1, <2>2, <2>3 DEF Numbers
  <2>5. Spare' - Granted' <= Spare - Granted
    BY ONLY <2>4, SpareSums
  <2>6. QED BY <1>1, <1>3, <2>1, <2>5, SpanStays
<1>7. ASSUME NEW p \in Acknowledgement, ReceivePubrec(p) PROVE SpanInv'
  <2>1. HandlePubrec(p.id)
    BY <1>7 DEF ReceivePubrec
  <2>2. UNCHANGED <<connected, maxQuota, quota, sent, early, handler>>
    BY <2>1 DEF HandlePubrec, history
  <2>3. PICK i \in 1 .. Len(inflight) : inflight' = [inflight EXCEPT ![i].state = "waiting_pubcomp"]
    BY <1>1, <2>1 DEF HandlePubrec
  <2>4. inflight[i] \in InFlight /\ inflight[i] \in ToSet(inflight)
    BY <1>1, ElementOfSeq, ToSetMembers
  <2> DEFINE f == [inflight[i] EXCEPT !.state = "waiting_pubcomp"]
  <2>5. f \in InFlight /\ f.op = inflight[i].op /\ f.qos = inflight[i].qos
    BY <2>4, EntryKinds
  <2>6. inflight' = [inflight EXCEPT ![i] = f]
    BY <2>3
  <2> HIDE DEF f
  <2>7. /\ inflight' \in Seq(InFlight) /\ Len(inflight') = Len(inflight)
        /\ \A j \in 1 .. Len(inflight) : inflight'[j] = IF j = i THEN f ELSE inflight[j]
    BY <1>1, <2>5, <2>6, ExceptSeq
  <2>8. \A e \in ToSet(inflight') : \E g \in ToSet(inflight) : g.op = e.op /\ g.qos = e.qos
    <3>1. SUFFICES ASSUME NEW j \in 1 .. Len(inflight)
                   PROVE  \E g \in ToSet(inflight) : g.op = inflight'[j].op /\ g.qos = inflight'[j].qos
      BY <2>7, ToSetMembers
    <3>2. inflight[j] \in ToSet(inflight)
      BY <1>1, ToSetMembers
    <3>3. CASE j = i
      BY <2>4, <2>5, <2>7, <3>3
    <3>4. CASE j # i
      BY <2>7, <3>2, <3>4
    <3>5. QED BY <3>3, <3>4
  <2>9. QED BY <1>4, <2>2, <2>8
<1>8. ASSUME NEW p \in Acknowledgement,
             ReceiveMismatch(p) \/ ReceiveRefused(p) \/ ReceivePubcomp(p)
      PROVE  SpanInv'
  <2>1. /\ UNCHANGED <<connected, maxQuota, quota, sent, early>>
        /\ handler' = handler \/ handler' # "puback"
    BY <1>8 DEF ReceiveMismatch, ReceiveRefused, ReceivePubcomp, HandlePubrecMismatch,
                HandlePubrecError, HandlePubcomp
  <2>2. PICK i \in 1 .. Len(inflight) : inflight' = RemoveAt(inflight, i)
    BY <1>1, <1>8 DEF ReceiveMismatch, ReceiveRefused, ReceivePubcomp, HandlePubrecMismatch,
                HandlePubrecError, HandlePubcomp, Finish
  <2>3. ToSet(inflight') \subseteq ToSet(inflight)
    BY <1>1, <2>2, Moves DEF Lost
  <2>4. QED BY <1>4, <2>1, <2>3
<1>9. CASE ClientReceive
  <2>1. Received
    BY <1>1, <1>9, ClientReceives
  <2>2. ASSUME NEW p \in Acknowledgement, ReceiveUnknown(p) PROVE FALSE
    <3>1. p = Head(toClient) /\ Unknown(p.id) /\ toClient # <<>> /\ toClient \in Seq(ServerPacket)
      BY <1>1, <2>1, <2>2 DEF ReceiveUnknown, Received, SessionTypeOK
    <3>2. p \in ToSet(toClient)
      BY <3>1, ToSetProperties
    <3>3. QED BY <1>1, <3>1, <3>2, NeverUnknown
  <2>3. ASSUME NEW p \in Acknowledgement, ReceivePuback(p) PROVE SpanInv'
    BY <1>1, <1>3, <2>1, <2>3, PubackSpan
  <2>4. ASSUME NEW rm \in ReceiveMaxima, ReceiveConnack(rm) PROVE SpanInv'
    BY <1>6, <2>4 DEF ReceiveConnack
  <2>5. QED BY <1>1, <1>7, <1>8, <1>9, <2>2, <2>3, <2>4, ClientReceives
<1>10. CASE User
  <2>1. CASE PublishQos0 \/ TakeRequestIdentifier
    BY <1>5, <2>1 DEF PublishQos0, TakeRequestIdentifier
  <2>2. QED BY <1>1, <1>2, <1>3, <1>10, <2>1, PublishSpan DEF User
<1>11. CASE Return
  BY <1>1, <1>2, <1>3, <1>11, ReturnSpan
<1>12. CASE ServerReceive \/ ServerAnswer \/ Disconnect \/ UNCHANGED sessionVars
  BY <1>5, <1>12 DEF ServerReceive, Transmit, ServerAnswer, Disconnect, Close, sessionVars, vars, history
<1>13. QED BY <1>9, <1>10, <1>11, <1>12 DEF SessionNext

\* What keeps identifiers apart: who drew which and when, the order of the publishes in
\* flight, the span of a QoS 1 publish and the order of the PUBACKs.
IdentifierInv == ApartInv /\ InOrderInv /\ SpanInv /\ TurnInv
IdentifierIInv == SessionIInv /\ IdentifierInv

LEMMA IdentifierStart == SessionInit => IdentifierIInv
<1> SUFFICES ASSUME SessionInit PROVE IdentifierIInv
  OBVIOUS
<1>1. SessionIInv /\ Init /\ queue = <<>> /\ inflight = <<>> /\ wire = <<>> /\ exchanges = <<>>
  BY SessionStart DEF SessionInit, Init
<1>2. PICK rm \in ReceiveMaxima : toClient = <<[type |-> "connack", receiveMaximum |-> rm]>>
  BY DEF SessionInit
<1>3. PICK c \in Connack : toClient = <<c>>
  BY <1>2 DEF Connack
<1>4. c \in ServerPacket /\ c \notin Pubacks
  BY QosKinds DEF ServerPacket
<1>5. \A T : Marks(<<>>, T) = {} /\ Ordered(<<>>, T)
  <2>1. ToSet(<<>>) = {} /\ Len(<<>>) = 0
    BY NothingOccurs
  <2>2. QED BY <2>1 DEF Marks, Ordered
<1>6. Marks(toClient, Pubacks) = {} /\ Ordered(toClient, Pubacks)
  <2>1. <<>> \in Seq(ServerPacket) /\ toClient = Append(<<>>, c)
    BY <1>3
  <2>2. Kept(<<>>, toClient, Pubacks)
    BY <1>4, <2>1, MarkAppended
  <2>3. QED BY <1>5, <2>2 DEF Kept
<1>7. ApartInv
  BY <1>1, <1>5 DEF ApartInv, Holders
<1>8. InOrderInv
  BY <1>1, <1>5 DEF InOrderInv
<1>9. SpanInv
  BY <1>1, NothingOccurs DEF SpanInv
<1>10. TurnInv
  BY <1>1, <1>5, <1>6 DEF TurnInv, OrderlyInv, PairedInv, Going, Due, Acked, Afloat
<1>11. QED BY <1>1, <1>7, <1>8, <1>9, <1>10 DEF IdentifierIInv, IdentifierInv

LEMMA IdentifierStays == IdentifierIInv /\ [SessionNext]_sessionVars => IdentifierIInv'
<1> SUFFICES ASSUME IdentifierIInv, [SessionNext]_sessionVars PROVE IdentifierIInv'
  OBVIOUS
<1>1. SessionIInv /\ ApartInv /\ InOrderInv /\ SpanInv /\ TurnInv
  BY DEF IdentifierIInv, IdentifierInv
<1>2. SessionIInv' /\ TypeOK' /\ [Next]_vars /\ IInv
  BY <1>1, SessionStays, SessionStep DEF SessionIInv, IInv
<1>3. SharedOnlyByQos2
  BY <1>1, <1>2, SharingFollows
<1>4. ApartInv'
  BY <1>1, <1>2, ApartStep
<1>5. InOrderInv'
  BY <1>1, <1>2, HolderStep
<1>6. SpanInv'
  BY <1>1, <1>2, SpanStep
<1>7. TurnInv'
  BY <1>1, <1>2, <1>3, TurnStep
<1>8. QED BY <1>2, <1>4, <1>5, <1>6, <1>7 DEF IdentifierIInv, IdentifierInv

\* What keeps the identifiers of QoS 1 publishes apart, from the first step on.
THEOREM IdentifiersInductive == SessionSpec => []IdentifierIInv
BY IdentifierStart, IdentifierStays, PTL DEF SessionSpec

\* While the socket is open and the window and the requests leave identifiers
\* enough, an identifier is taken again only from a QoS 2 publish: though nothing
\* looks whether it is in use, PUBACKs in their order keep QoS 1 publishes apart.
THEOREM SharingCorrect == SessionSpec => []SharedOnlyByQos2
<1>1. IdentifierIInv => SharedOnlyByQos2
  BY SharingFollows DEF IdentifierIInv, IdentifierInv, SessionIInv
<1>2. QED BY <1>1, IdentifiersInductive, PTL
=============================================================================
