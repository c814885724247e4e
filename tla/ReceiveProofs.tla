--------------------------- MODULE ReceiveProofs ----------------------------
(***************************************************************************)
(* Proofs about ReceiveFlow and ReceiveSession, for every value of their   *)
(* constants: first the client with any server at all, then the client     *)
(* and the server that ReceiveSession composes it with.                    *)
(*                                                                         *)
(* With that server, a packet goes round: the server sends it, the client  *)
(* answers it at the other end of toClient, and the server receives the    *)
(* answer.  Answers do not overtake each other on their way, so what the   *)
(* client is writing and what is under way to the server are one queue     *)
(* here, Replies.                                                          *)
(***************************************************************************)
EXTENDS ReceiveSession, SequenceLemmas
-----------------------------------------------------------------------------
(* THE CLIENT, WITH ANY SERVER *)

\* The PUBLISH packets handled are numbered by `arrivals': what is kept and
\* what was handed out are different ones of them, and the identifiers of what
\* is kept are different, so that the identifier finds the entry.
KeptInv ==
    /\ StoredOnce
    /\ \A i, j \in 1 .. Len(stored) : i # j => stored[i].op # stored[j].op
    /\ \A i \in 1 .. Len(stored) : stored[i].op <= arrivals
    /\ \A i \in 1 .. Len(delivered) : delivered[i].op <= arrivals
    /\ DeliveredOnce

\* Nothing is written nor charged before the CONNACK, and the options are those
\* of the CONNECT or ones that replaced them.
QuotaInv ==
    /\ conn # "connected" => outgoing = <<>> /\ leaked = 0 /\ excess = 0
    /\ conn # "idle" => receiveMaximum \in MaximaSeen
    /\ ReceiveQuotaAccounted

\* Who waits: under its own filter only, a receiver that started and that
\* subscribes again, or was not told yet.
WaitersInv ==
    /\ \A r \in Receivers :
        /\ since[r] <= Len(delivered)
        /\ since[r] = -1 => told[r] = <<>>
        /\ \A f \in Filters :
            r \in waiters[f] <=> /\ f = FilterOf[r]
                                 /\ since[r] >= 0
                                 /\ r \in Loops \/ Due(r) = {}
    /\ WaitersServed

\* What the balance of the quota adds up to.
Granted == receiveQuota + Pubacks(outgoing) + leaked

\* A number between the receive maxima seen.
Between(n) == (\E m \in MaximaSeen : m <= n) /\ (\E m \in MaximaSeen : n <= m)

IInv == TypeOK /\ KeptInv /\ QuotaInv /\ WaitersInv

\* A step of the client with any server: what ReceiveSession composes, too.
ClientStep ==
    \/ \E r \in Receivers : Subscribe(r)
    \/ \E m \in ReceiveMaxima : Handshaker(m)
    \/ StartHandshake \/ Close \/ HandleConnack \/ WriteCompletes
    \/ \E p \in Publication : HandlePublish(p)
    \/ \E id \in Ids : HandlePubrel(id)

AnswerPacket == [type : Answers, id : Ids]
OutPacket == AnswerPacket \cup {DisconnectPacket}

LEMMA NextIsClientStep ==
    ASSUME TypeOK, Next
    PROVE  ClientStep
<1>1. ASSUME NEW qos \in QosLevels, NEW id \in Ids, NEW topic \in Topics
      PROVE  [op |-> arrivals + 1, qos |-> qos, id |-> id, topic |-> topic] \in Publication
  BY DEF Publication, TypeOK
<1>2. QED BY <1>1 DEF Next, ClientStep
-----------------------------------------------------------------------------
(* Type correctness *)

\* Every write puts one answer behind the others, a DISCONNECT before it or not.
LEMMA WriteType ==
    ASSUME TypeOK, NEW answer \in AnswerPacket
    PROVE  /\ Write(<<answer>>) => outgoing' \in Seq(OutPacket)
           /\ Write(Append(Complaint, answer)) => outgoing' \in Seq(OutPacket)
<1>1. outgoing \in Seq(OutPacket) /\ answer \in OutPacket /\ DisconnectPacket \in OutPacket
  BY DEF TypeOK, OutPacket, AnswerPacket
<1>2. <<answer>> \in Seq(OutPacket) /\ Append(Complaint, answer) \in Seq(OutPacket)
  BY <1>1 DEF Complaint
<1>3. /\ outgoing \o <<answer>> \in Seq(OutPacket)
      /\ outgoing \o Append(Complaint, answer) \in Seq(OutPacket)
  BY <1>1, <1>2, ConcatProperties
<1>4. QED BY <1>1, <1>3 DEF Write

LEMMA DeliverType ==
    ASSUME TypeOK, NEW p \in Publication, Deliver(p)
    PROVE  /\ delivered' \in Seq(Publication)
           /\ told' \in [Receivers -> Seq(Nat)]
           /\ waiters' \in [Filters -> SUBSET Receivers]
<1>1. delivered' \in Seq(Publication)
  <2>1. delivered' = Append(delivered, p) /\ delivered \in Seq(Publication)
    BY DEF Deliver, TypeOK
  <2>2. QED BY <2>1, AppendProperties
<1>2. waiters' \in [Filters -> SUBSET Receivers]
  BY DEF Deliver, TypeOK, StillWaiting
<1>3. told' \in [Receivers -> Seq(Nat)]
  <2>1. Len(delivered) + 1 \in Nat
    BY LenProperties DEF TypeOK
  <2>2. \A r \in Receivers : told[r] \in Seq(Nat) /\ Append(told[r], Len(delivered) + 1) \in Seq(Nat)
    BY <2>1, AppendProperties DEF TypeOK
  <2>3. QED BY <2>2 DEF Deliver
<1>4. QED BY <1>1, <1>2, <1>3

LEMMA ChargeType ==
    ASSUME TypeOK, Charge
    PROVE  receiveQuota' \in 0 .. UnsetQuota /\ excess' \in Nat
BY QuotaAssumption DEF TypeOK, Charge

LEMMA HandlePublishType ==
    ASSUME TypeOK, NEW p \in Publication, HandlePublish(p)
    PROVE  TypeOK'
<1>1. p.id \in Ids /\ p.qos \in QosLevels
  BY DEF Publication
<1>2. Answer("puback", p.id) \in AnswerPacket /\ Answer("pubrec", p.id) \in AnswerPacket
  BY <1>1 DEF Answer, AnswerPacket, Answers
<1>3. arrivals' \in Nat /\ leaked' \in Nat
  BY DEF HandlePublish, TypeOK
<1>4. CASE p.qos = 0 /\ Deliver(p) /\ UNCHANGED <<receiveQuota, stored, outgoing, excess>>
  BY <1>3, <1>4, DeliverType DEF HandlePublish, TypeOK, options
<1>5. CASE /\ p.qos = 1 /\ Charge /\ Deliver(p) /\ UNCHANGED stored
           /\ Write(Append(Complaint, Answer("puback", p.id)))
  <2>1. outgoing' \in Seq(OutPacket)
    BY <1>2, <1>5, WriteType
  <2>2. QED BY <2>1, <1>3, <1>5, DeliverType, ChargeType
            DEF HandlePublish, TypeOK, options, OutPacket, AnswerPacket
<1>6. CASE /\ p.qos = 2 /\ Charge /\ Store(p) /\ DeliverNothing
           /\ Write(Append(Complaint, Answer("pubrec", p.id)))
  <2>1. outgoing' \in Seq(OutPacket)
    BY <1>2, <1>6, WriteType
  <2>2. stored' \in Seq(Publication)
    <3>1. stored \in Seq(Publication) /\ Append(stored, p) \in Seq(Publication)
      BY AppendProperties DEF TypeOK
    <3>2. QED BY <3>1, <1>6 DEF Store
  <2>3. QED BY <2>1, <2>2, <1>3, <1>6, ChargeType
            DEF HandlePublish, TypeOK, options, OutPacket, AnswerPacket, DeliverNothing
<1>7. QED BY <1>4, <1>5, <1>6 DEF HandlePublish

LEMMA HandlePubrelType ==
    ASSUME TypeOK, NEW id \in Ids, HandlePubrel(id)
    PROVE  TypeOK'
<1>1. outgoing' \in Seq(OutPacket)
  <2>1. Answer("pubcomp", id) \in AnswerPacket
    BY DEF Answer, AnswerPacket, Answers
  <2>2. QED BY <2>1, WriteType DEF HandlePubrel
<1>2. CASE /\ ~Known(id) /\ DeliverNothing /\ UNCHANGED stored
  BY <1>1, <1>2 DEF HandlePubrel, DeliverNothing, TypeOK, options, OutPacket, AnswerPacket
<1>3. ASSUME NEW i \in DOMAIN stored, Release(i), Deliver(stored[i])
      PROVE  TypeOK'
  <2>1. stored \in Seq(Publication) /\ i \in 1 .. Len(stored)
    BY LenProperties DEF TypeOK
  <2>2. stored[i] \in Publication
    BY <2>1, ElementOfSeq
  <2>3. stored' \in Seq(Publication)
    BY <1>3, <2>1, RemoveAtProperties DEF Release
  <2>4. QED BY <1>1, <1>3, <2>2, <2>3, DeliverType
            DEF HandlePubrel, TypeOK, options, OutPacket, AnswerPacket
<1>4. QED BY <1>2, <1>3 DEF HandlePubrel

LEMMA WriteCompletesType ==
    ASSUME TypeOK, WriteCompletes
    PROVE  TypeOK'
<1>1. outgoing' \in Seq(OutPacket)
  <2>1. outgoing \in Seq(OutPacket) /\ outgoing # <<>>
    BY DEF TypeOK, OutPacket, AnswerPacket, WriteCompletes
  <2>2. Tail(outgoing) \in Seq(OutPacket) /\ <<>> \in Seq(OutPacket)
    BY <2>1, HeadTailProperties
  <2>3. QED BY <2>2 DEF WriteCompletes
<1>2. receiveQuota' \in 0 .. UnsetQuota
  BY QuotaAssumption DEF WriteCompletes, Restore, TypeOK
<1>3. open' \in BOOLEAN
  BY DEF WriteCompletes, TypeOK
<1>4. QED BY <1>1, <1>2, <1>3
          DEF WriteCompletes, TypeOK, options, history, OutPacket, AnswerPacket

LEMMA TypeStep ==
    ASSUME TypeOK, [ClientStep]_vars
    PROVE  TypeOK'
<1>1. ASSUME NEW r \in Receivers, Subscribe(r) PROVE TypeOK'
  <2>1. FilterOf[r] \in Filters /\ Len(delivered) \in Nat
    BY WaitersAssumption, LenProperties DEF TypeOK
  <2>2. waiters' \in [Filters -> SUBSET Receivers] /\ since' \in [Receivers -> {-1} \cup Nat]
    BY <1>1, <2>1 DEF Subscribe, TypeOK
  <2>3. QED BY <1>1, <2>2 DEF Subscribe, TypeOK, options
<1>2. ASSUME NEW m \in ReceiveMaxima, Handshaker(m) PROVE TypeOK'
  <2>1. m \in 0 .. UnsetQuota
    BY QuotaAssumption
  <2>2. replaced' \subseteq ReceiveMaxima /\ handshakers' \in Nat
    BY <1>2 DEF Handshaker, TypeOK
  <2>3. QED BY <1>2, <2>1, <2>2 DEF Handshaker, TypeOK, history
<1>3. ASSUME StartHandshake PROVE TypeOK'
  BY <1>3 DEF StartHandshake, TypeOK, history
<1>4. ASSUME Close PROVE TypeOK'
  <2>1. <<>> \in Seq(OutPacket)
    OBVIOUS
  <2>2. QED BY <1>4, <2>1 DEF Close, TypeOK, options, history, OutPacket, AnswerPacket
<1>5. ASSUME HandleConnack PROVE TypeOK'
  BY <1>5 DEF HandleConnack, TypeOK, options, history
<1>6. ASSUME UNCHANGED vars PROVE TypeOK'
  BY <1>6 DEF vars, TypeOK, options, history
<1>7. QED
  BY <1>1, <1>2, <1>3, <1>4, <1>5, <1>6, HandlePublishType, HandlePubrelType,
     WriteCompletesType DEF ClientStep
-----------------------------------------------------------------------------
(* What is kept and what was handed out *)

\* The invariant by positions.
LEMMA KeptMeans ==
    ASSUME TypeOK
    PROVE  /\ stored \in Seq(Publication) /\ delivered \in Seq(Publication)
           /\ DOMAIN stored = 1 .. Len(stored) /\ DOMAIN delivered = 1 .. Len(delivered)
           /\ \A i \in 1 .. Len(stored) : stored[i] \in Publication /\ stored[i].op \in Nat
           /\ \A i \in 1 .. Len(delivered) : delivered[i] \in Publication /\ delivered[i].op \in Nat
<1>1. stored \in Seq(Publication) /\ delivered \in Seq(Publication)
  BY DEF TypeOK
<1>2. /\ \A i \in 1 .. Len(stored) : stored[i] \in Publication
      /\ \A i \in 1 .. Len(delivered) : delivered[i] \in Publication
  BY <1>1, ElementOfSeq
<1>3. \A p \in Publication : p.op \in Nat
  BY DEF Publication
<1>4. QED BY <1>1, <1>2, <1>3, LenProperties

LEMMA PublishKept ==
    ASSUME TypeOK, TypeOK', KeptInv, NEW p \in Publication, p.op = arrivals + 1,
           HandlePublish(p)
    PROVE  KeptInv'
<1>1. arrivals \in Nat /\ arrivals' = arrivals + 1
  BY DEF TypeOK, HandlePublish
<1>2. /\ \A i \in 1 .. Len(stored) : stored[i].op <= arrivals' /\ stored[i].op # p.op
      /\ \A i \in 1 .. Len(delivered) : delivered[i].op <= arrivals' /\ delivered[i].op # p.op
  BY <1>1, KeptMeans DEF KeptInv
<1>3. /\ \A i, j \in 1 .. Len(stored) :
            i # j => stored[i].id # stored[j].id /\ stored[i].op # stored[j].op
      /\ \A i, j \in 1 .. Len(delivered) : i # j => delivered[i].op # delivered[j].op
      /\ \A i \in 1 .. Len(stored), j \in 1 .. Len(delivered) : stored[i].op # delivered[j].op
  BY KeptMeans DEF KeptInv, StoredOnce, DeliveredOnce
<1>4. p.op <= arrivals'
  BY <1>1
<1> SUFFICES /\ \A i, j \in 1 .. Len(stored') :
                  i # j => stored'[i].id # stored'[j].id /\ stored'[i].op # stored'[j].op
             /\ \A i, j \in 1 .. Len(delivered') : i # j => delivered'[i].op # delivered'[j].op
             /\ \A i \in 1 .. Len(stored'), j \in 1 .. Len(delivered') :
                  stored'[i].op # delivered'[j].op
             /\ \A i \in 1 .. Len(stored') : stored'[i].op <= arrivals'
             /\ \A i \in 1 .. Len(delivered') : delivered'[i].op <= arrivals'
  <2>1. DOMAIN stored' = 1 .. Len(stored') /\ DOMAIN delivered' = 1 .. Len(delivered')
    BY LenProperties DEF TypeOK
  <2>2. QED BY <2>1 DEF KeptInv, StoredOnce, DeliveredOnce
<1>5. CASE Deliver(p) /\ UNCHANGED stored
  <2>1. \A i \in 1 .. Len(delivered') :
            \/ i \in 1 .. Len(delivered) /\ delivered'[i] = delivered[i]
            \/ i = Len(delivered) + 1 /\ delivered'[i] = p
    <3>1. delivered' = Append(delivered, p)
      BY <1>5 DEF Deliver
    <3>2. QED BY <3>1, KeptMeans, Appended
  <2>2. stored' = stored
    BY <1>5
  <2>3. \A i, j \in 1 .. Len(delivered') : i # j => delivered'[i].op # delivered'[j].op
    BY <1>2, <1>3, <2>1
  <2>4. \A i \in 1 .. Len(stored'), j \in 1 .. Len(delivered') : stored'[i].op # delivered'[j].op
    BY <1>2, <1>3, <2>1, <2>2
  <2>5. \A i \in 1 .. Len(delivered') : delivered'[i].op <= arrivals'
    BY <1>2, <1>4, <2>1
  <2>6. QED BY <1>2, <1>3, <2>2, <2>3, <2>4, <2>5
<1>6. CASE Store(p) /\ UNCHANGED delivered
  <2>1. CASE Known(p.id)
    BY <2>1, <1>2, <1>3, <1>6 DEF Store
  <2>2. CASE ~Known(p.id)
    <3>1. \A i \in 1 .. Len(stored') :
            \/ i \in 1 .. Len(stored) /\ stored'[i] = stored[i]
            \/ i = Len(stored) + 1 /\ stored'[i] = p
      <4>1. stored' = Append(stored, p)
        BY <1>6, <2>2 DEF Store
      <4>2. QED BY <4>1, KeptMeans, Appended
    <3>2. \A i \in 1 .. Len(stored) : stored[i].id # p.id
      BY <2>2, KeptMeans DEF Known
    <3>3. delivered' = delivered
      BY <1>6
    <3>4. \A i, j \in 1 .. Len(stored') :
             i # j => stored'[i].id # stored'[j].id /\ stored'[i].op # stored'[j].op
      BY <1>2, <1>3, <3>1, <3>2
    <3>5. \A i \in 1 .. Len(stored'), j \in 1 .. Len(delivered') : stored'[i].op # delivered'[j].op
      BY <1>2, <1>3, <3>1, <3>3
    <3>6. \A i \in 1 .. Len(stored') : stored'[i].op <= arrivals'
      BY <1>2, <1>4, <3>1
    <3>7. QED BY <1>2, <1>3, <3>3, <3>4, <3>5, <3>6
  <2>3. QED BY <2>1, <2>2
<1>7. QED BY <1>5, <1>6 DEF HandlePublish, DeliverNothing

LEMMA PubrelKept ==
    ASSUME TypeOK, TypeOK', KeptInv, NEW id \in Ids, HandlePubrel(id)
    PROVE  KeptInv'
<1>1. arrivals' = arrivals
  BY DEF HandlePubrel
<1>2. /\ \A i, j \in 1 .. Len(stored) :
            i # j => stored[i].id # stored[j].id /\ stored[i].op # stored[j].op
      /\ \A i, j \in 1 .. Len(delivered) : i # j => delivered[i].op # delivered[j].op
      /\ \A i \in 1 .. Len(stored), j \in 1 .. Len(delivered) : stored[i].op # delivered[j].op
      /\ \A i \in 1 .. Len(stored) : stored[i].op <= arrivals
      /\ \A i \in 1 .. Len(delivered) : delivered[i].op <= arrivals
  BY KeptMeans DEF KeptInv, StoredOnce, DeliveredOnce
<1> DEFINE Kept ==
             /\ \A i, j \in 1 .. Len(stored') :
                  i # j => stored'[i].id # stored'[j].id /\ stored'[i].op # stored'[j].op
             /\ \A i, j \in 1 .. Len(delivered') : i # j => delivered'[i].op # delivered'[j].op
             /\ \A i \in 1 .. Len(stored'), j \in 1 .. Len(delivered') :
                  stored'[i].op # delivered'[j].op
             /\ \A i \in 1 .. Len(stored') : stored'[i].op <= arrivals
             /\ \A i \in 1 .. Len(delivered') : delivered'[i].op <= arrivals
<1> SUFFICES Kept
  <2>1. DOMAIN stored' = 1 .. Len(stored') /\ DOMAIN delivered' = 1 .. Len(delivered')
    BY LenProperties DEF TypeOK
  <2>2. QED BY <1>1, <2>1 DEF KeptInv, StoredOnce, DeliveredOnce
<1>3. ASSUME NEW i \in DOMAIN stored, Release(i), Deliver(stored[i])
      PROVE  Kept
  <2>1. i \in 1 .. Len(stored) /\ stored[i] \in Publication /\ stored \in Seq(Publication)
    BY <1>3, KeptMeans
  <2>2. stored' = RemoveAt(stored, i) /\ delivered' = Append(delivered, stored[i])
    BY <1>3 DEF Release, Deliver
  <2>3. \A j \in 1 .. Len(stored') :
            /\ Before(j, i) \in 1 .. Len(stored) /\ Before(j, i) # i
            /\ stored'[j] = stored[Before(j, i)]
    BY <2>1, <2>2, Erased
  <2>4. \A j, k \in 1 .. Len(stored') : j # k => Before(j, i) # Before(k, i)
    BY <2>1, <2>2, Erased
  <2>5. \A j \in 1 .. Len(delivered') :
            \/ j \in 1 .. Len(delivered) /\ delivered'[j] = delivered[j]
            \/ j = Len(delivered) + 1 /\ delivered'[j] = stored[i]
    BY <2>1, <2>2, KeptMeans, Appended
  <2>6. \A j, k \in 1 .. Len(stored') :
            j # k => stored'[j].id # stored'[k].id /\ stored'[j].op # stored'[k].op
    BY <1>2, <2>3, <2>4
  <2>7. \A j, k \in 1 .. Len(delivered') : j # k => delivered'[j].op # delivered'[k].op
    BY <1>2, <2>1, <2>5
  <2>8. \A j \in 1 .. Len(stored'), k \in 1 .. Len(delivered') : stored'[j].op # delivered'[k].op
    BY <1>2, <2>1, <2>3, <2>5
  <2>9. /\ \A j \in 1 .. Len(stored') : stored'[j].op <= arrivals
        /\ \A j \in 1 .. Len(delivered') : delivered'[j].op <= arrivals
    BY <1>2, <2>1, <2>3, <2>5
  <2>10. QED BY <2>6, <2>7, <2>8, <2>9
<1>4. CASE UNCHANGED <<stored, delivered>>
  BY <1>2, <1>4
<1> HIDE DEF Kept
<1>5. QED BY <1>3, <1>4 DEF HandlePubrel, DeliverNothing

LEMMA KeptStep ==
    ASSUME TypeOK, TypeOK', KeptInv, [Next]_vars
    PROVE  KeptInv'
<1>1. CASE UNCHANGED <<stored, delivered, arrivals>>
  BY <1>1 DEF KeptInv, StoredOnce, DeliveredOnce
<1>2. ASSUME NEW qos \in QosLevels, NEW id \in Ids, NEW topic \in Topics,
             HandlePublish([op |-> arrivals + 1, qos |-> qos, id |-> id, topic |-> topic])
      PROVE  KeptInv'
  <2> DEFINE p == [op |-> arrivals + 1, qos |-> qos, id |-> id, topic |-> topic]
  <2>1. p \in Publication /\ p.op = arrivals + 1
    BY DEF Publication, TypeOK
  <2> HIDE DEF p
  <2>2. HandlePublish(p)
    BY <1>2 DEF p
  <2>3. QED BY <2>1, <2>2, PublishKept
<1>3. ASSUME NEW id \in Ids, HandlePubrel(id) PROVE KeptInv'
  BY <1>3, PubrelKept
<1>4. ASSUME NEW r \in Receivers, Subscribe(r) PROVE KeptInv'
  BY <1>1, <1>4 DEF Subscribe
<1>5. ASSUME NEW m \in ReceiveMaxima, Handshaker(m) PROVE KeptInv'
  BY <1>1, <1>5 DEF Handshaker, history
<1>6. CASE StartHandshake \/ Close \/ HandleConnack \/ WriteCompletes \/ UNCHANGED vars
  BY <1>1, <1>6 DEF StartHandshake, Close, HandleConnack, WriteCompletes, vars, history
<1>7. QED BY <1>2, <1>3, <1>4, <1>5, <1>6 DEF Next
-----------------------------------------------------------------------------
(* The receive quota *)

LEMMA PubackCount ==
    ASSUME NEW s \in Seq(OutPacket)
    PROVE  /\ Pubacks(s) \in Nat
           /\ s = <<>> => Pubacks(s) = 0
           /\ \A p \in OutPacket :
                Pubacks(s \o <<p>>) = Pubacks(s) + IF p.type = "puback" THEN 1 ELSE 0
           /\ s # <<>> =>
                Pubacks(s) = Pubacks(Tail(s)) + IF Head(s).type = "puback" THEN 1 ELSE 0
<1> DEFINE T == {p \in OutPacket : p.type = "puback"}
<1>1. ASSUME NEW t \in Seq(OutPacket) PROVE Pubacks(t) = Occurrences(t, T)
  <2>1. DOMAIN t = 1 .. Len(t) /\ \A i \in 1 .. Len(t) : t[i] \in OutPacket
    BY LenProperties, ElementOfSeq
  <2>2. {i \in DOMAIN t : t[i].type = "puback"} = {i \in 1 .. Len(t) : t[i] \in T}
    BY <2>1
  <2>3. QED BY <2>2 DEF Pubacks, Occurrences
<1>2. \A p \in OutPacket : p \in T <=> p.type = "puback"
  OBVIOUS
<1> HIDE DEF T
<1>3. Pubacks(s) \in Nat /\ (s = <<>> => Pubacks(s) = 0)
  BY <1>1, OccurrencesProperties
<1>4. ASSUME NEW p \in OutPacket
      PROVE  Pubacks(s \o <<p>>) = Pubacks(s) + IF p.type = "puback" THEN 1 ELSE 0
  <2>1. Append(s, p) \in Seq(OutPacket) /\ Append(s, p) = s \o <<p>>
    BY AppendProperties, AppendIsConcat
  <2>2. Occurrences(Append(s, p), T) = Occurrences(s, T) + IF p \in T THEN 1 ELSE 0
    BY OccurrencesProperties
  <2>3. Pubacks(Append(s, p)) = Occurrences(Append(s, p), T)
    BY <1>1, <2>1
  <2>4. Pubacks(s) = Occurrences(s, T)
    BY <1>1
  <2>5. QED BY <1>2, <2>1, <2>2, <2>3, <2>4
<1>5. ASSUME s # <<>>
      PROVE  Pubacks(s) = Pubacks(Tail(s)) + IF Head(s).type = "puback" THEN 1 ELSE 0
  <2>1. Head(s) \in OutPacket /\ Tail(s) \in Seq(OutPacket)
    BY <1>5, HeadTailProperties
  <2>2. Occurrences(s, T) = Occurrences(Tail(s), T) + IF Head(s) \in T THEN 1 ELSE 0
    BY <1>5, OccurrencesProperties
  <2>3. Pubacks(s) = Occurrences(s, T) /\ Pubacks(Tail(s)) = Occurrences(Tail(s), T)
    BY <1>1, <2>1
  <2>4. QED BY <1>2, <2>1, <2>2, <2>3
<1>6. QED BY <1>3, <1>4, <1>5

\* What a write with quota left adds.
LEMMA AnswerWritten ==
    ASSUME TypeOK, open, NEW answer \in AnswerPacket
    PROVE  /\ Write(<<answer>>) =>
                Pubacks(outgoing') = Pubacks(outgoing) + IF answer.type = "puback" THEN 1 ELSE 0
           /\ receiveQuota > 0 /\ Write(Append(Complaint, answer)) =>
                Pubacks(outgoing') = Pubacks(outgoing) + IF answer.type = "puback" THEN 1 ELSE 0
<1>1. outgoing \in Seq(OutPacket) /\ answer \in OutPacket
  BY DEF TypeOK, OutPacket, AnswerPacket
<1>2. Pubacks(outgoing \o <<answer>>)
        = Pubacks(outgoing) + IF answer.type = "puback" THEN 1 ELSE 0
  BY <1>1, PubackCount
<1>3. receiveQuota > 0 => Append(Complaint, answer) = <<answer>>
  <2>1. receiveQuota > 0 => Complaint = <<>>
    BY DEF Complaint, TypeOK
  <2>2. Append(<<>>, answer) = <<answer>>
    OBVIOUS
  <2>3. QED BY <2>1, <2>2
<1>4. QED BY <1>2, <1>3 DEF Write

LEMMA SeenNumbers ==
    ASSUME TypeOK
    PROVE  /\ MaximaSeen \subseteq Nat
           /\ receiveQuota \in Nat /\ receiveMaximum \in Nat /\ leaked \in Nat /\ excess \in Nat
           /\ Pubacks(outgoing) \in Nat
<1>1. Pubacks(outgoing) \in Nat
  BY PubackCount DEF TypeOK, OutPacket, AnswerPacket
<1>2. QED BY <1>1, QuotaAssumption DEF TypeOK, MaximaSeen

\* The property with names for its parts.
LEMMA Balance == ReceiveQuotaAccounted <=> (conn = "connected" /\ open /\ excess = 0 => Between(Granted))
BY DEF ReceiveQuotaAccounted, Between, Granted

LEMMA QuotaPublish ==
    ASSUME TypeOK, QuotaInv, NEW p \in Publication, HandlePublish(p)
    PROVE  QuotaInv'
<1>1. /\ conn = "connected"
      /\ UNCHANGED <<conn, open, receiveMaximum, announced, replaced, MaximaSeen>>
  BY DEF HandlePublish, options, MaximaSeen
<1>2. SUFFICES ASSUME open, excess' = 0
               PROVE  excess = 0 /\ Granted' = Granted
  BY <1>1 DEF QuotaInv, ReceiveQuotaAccounted, Granted
<1>3. /\ excess \in Nat /\ leaked \in Nat /\ receiveQuota \in Nat /\ Pubacks(outgoing) \in Nat
  BY SeenNumbers
<1>4. Answer("puback", p.id) \in AnswerPacket /\ Answer("pubrec", p.id) \in AnswerPacket
  BY DEF Answer, AnswerPacket, Answers, Publication
<1>5. CASE p.qos = 0 /\ UNCHANGED <<receiveQuota, outgoing, excess>>
  <2>1. leaked' = leaked /\ excess = 0
    BY <1>2, <1>5 DEF HandlePublish
  <2>2. QED BY <2>1, <1>5 DEF Granted
<1>6. ASSUME Charge
      PROVE  receiveQuota > 0 /\ receiveQuota' = receiveQuota - 1 /\ excess = 0
  BY <1>2, <1>3, <1>6 DEF Charge
<1>7. CASE p.qos = 1 /\ Charge /\ Write(Append(Complaint, Answer("puback", p.id)))
  <2>1. Pubacks(outgoing') = Pubacks(outgoing) + 1
    <3>1. Answer("puback", p.id).type = "puback"
      BY DEF Answer
    <3>2. QED BY <3>1, <1>2, <1>4, <1>6, <1>7, AnswerWritten
  <2>2. leaked' = leaked
    BY <1>7 DEF HandlePublish
  <2>3. QED BY <2>1, <2>2, <1>3, <1>6, <1>7 DEF Granted
<1>8. CASE p.qos = 2 /\ Charge /\ Write(Append(Complaint, Answer("pubrec", p.id)))
  <2>1. Pubacks(outgoing') = Pubacks(outgoing)
    <3>1. Answer("pubrec", p.id).type # "puback"
      BY DEF Answer
    <3>2. Pubacks(outgoing') = Pubacks(outgoing) + 0
      BY <3>1, <1>2, <1>4, <1>6, <1>8, AnswerWritten
    <3>3. QED BY <3>2, <1>3
  <2>2. leaked' = leaked + 1
    BY <1>6, <1>8 DEF HandlePublish
  <2>3. QED BY <2>1, <2>2, <1>3, <1>6, <1>8 DEF Granted
<1>9. QED BY <1>5, <1>7, <1>8 DEF HandlePublish

\* A PUBACK that returns nothing finds the quota at the latest maximum.
LEMMA QuotaWriteCompletes ==
    ASSUME TypeOK, QuotaInv, WriteCompletes
    PROVE  QuotaInv'
<1>1. /\ conn = "connected" /\ outgoing # <<>>
      /\ UNCHANGED <<conn, receiveMaximum, announced, replaced, leaked, excess, MaximaSeen>>
  BY DEF WriteCompletes, QuotaInv, options, history, MaximaSeen
<1>2. SUFFICES ASSUME open', excess = 0
               PROVE  Between(Granted')
  BY <1>1 DEF QuotaInv, ReceiveQuotaAccounted, Granted, Between
<1>3. /\ MaximaSeen \subseteq Nat /\ leaked \in Nat /\ receiveQuota \in Nat
      /\ receiveMaximum \in Nat /\ Pubacks(outgoing) \in Nat
  BY SeenNumbers
<1>4. outgoing \in Seq(OutPacket)
  BY DEF TypeOK, OutPacket, AnswerPacket
<1>5. /\ Tail(outgoing) \in Seq(OutPacket) /\ Pubacks(Tail(outgoing)) \in Nat
      /\ Pubacks(outgoing)
            = Pubacks(Tail(outgoing)) + IF Head(outgoing).type = "puback" THEN 1 ELSE 0
  <2>1. Tail(outgoing) \in Seq(OutPacket)
    BY <1>1, <1>4, HeadTailProperties
  <2>2. QED BY <2>1, <1>1, <1>4, PubackCount
<1>6. open /\ outgoing' = Tail(outgoing) /\ Head(outgoing).type # "disconnect"
  BY <1>2 DEF WriteCompletes, TypeOK
<1>7. Between(Granted) /\ receiveMaximum \in MaximaSeen
  BY <1>1, <1>2, <1>6, Balance DEF QuotaInv
<1>8. CASE Head(outgoing).type = "puback" /\ Restore
  <2>1. Pubacks(outgoing) = Pubacks(outgoing') + 1 /\ Pubacks(outgoing') \in Nat
    BY <1>5, <1>6, <1>8
  <2>2. CASE receiveQuota < receiveMaximum
    <3>1. receiveQuota' = receiveQuota + 1
      BY <2>2, <1>1, <1>8 DEF Restore
    <3>2. Granted' = Granted
      BY <2>1, <3>1, <1>1, <1>3 DEF Granted
    <3>3. QED BY <3>2, <1>7
  <2>3. CASE ~(receiveQuota < receiveMaximum)
    <3>1. receiveQuota' = receiveQuota
      BY <2>3, <1>8 DEF Restore
    <3>2. /\ Granted' = receiveQuota + Pubacks(outgoing') + leaked
          /\ Granted = receiveQuota + (Pubacks(outgoing') + 1) + leaked
      BY <2>1, <3>1, <1>1 DEF Granted
    <3>3. receiveMaximum <= Granted'
      BY <3>2, <2>1, <2>3, <1>3
    <3>4. PICK m \in MaximaSeen : Granted <= m
      BY <1>7 DEF Between
    <3>5. Granted' <= m
      BY <3>2, <3>4, <2>1, <1>3
    <3>6. QED BY <3>3, <3>5, <1>7 DEF Between
  <2>4. QED BY <2>2, <2>3
<1>9. CASE Head(outgoing).type # "puback" /\ UNCHANGED receiveQuota
  <2>1. Granted' = Granted
    BY <1>1, <1>3, <1>5, <1>6, <1>9 DEF Granted
  <2>2. QED BY <2>1, <1>7
<1>10. QED BY <1>6, <1>8, <1>9 DEF WriteCompletes

LEMMA QuotaStep ==
    ASSUME TypeOK, QuotaInv, [ClientStep]_vars
    PROVE  QuotaInv'
<1> USE DEF MaximaSeen
<1>1. outgoing = <<>> => Pubacks(outgoing) = 0
  BY PubackCount DEF TypeOK, OutPacket, AnswerPacket
<1>2. ASSUME NEW r \in Receivers, Subscribe(r) PROVE QuotaInv'
  BY <1>2 DEF Subscribe, options, QuotaInv, ReceiveQuotaAccounted
<1>3. ASSUME NEW m \in ReceiveMaxima, Handshaker(m) PROVE QuotaInv'
  <2>1. /\ UNCHANGED <<conn, open, announced, receiveQuota, outgoing, leaked, excess>>
        /\ receiveMaximum' = m
        /\ replaced' = IF conn = "idle" THEN replaced ELSE replaced \cup ({m} \ {announced})
    BY <1>3 DEF Handshaker, history
  <2>2. MaximaSeen \subseteq MaximaSeen' /\ (conn # "idle" => m \in MaximaSeen')
    BY <2>1
  <2>3. ReceiveQuotaAccounted'
    BY <2>1, <2>2 DEF QuotaInv, ReceiveQuotaAccounted
  <2>4. QED BY <2>1, <2>2, <2>3 DEF QuotaInv
<1>4. ASSUME StartHandshake PROVE QuotaInv'
  BY <1>4 DEF StartHandshake, history, QuotaInv, ReceiveQuotaAccounted
<1>5. ASSUME Close PROVE QuotaInv'
  BY <1>5 DEF Close, options, history, QuotaInv, ReceiveQuotaAccounted
<1>6. ASSUME HandleConnack PROVE QuotaInv'
  <2>1. /\ conn = "handshaking" /\ conn' = "connected" /\ receiveQuota' = receiveMaximum
        /\ UNCHANGED <<open, receiveMaximum, announced, replaced, outgoing, leaked, excess>>
    BY <1>6 DEF HandleConnack, options, history
  <2>2. Pubacks(outgoing') = 0 /\ leaked' = 0
    BY <2>1, <1>1 DEF QuotaInv
  <2>3. receiveMaximum \in MaximaSeen /\ receiveMaximum \in Nat
    BY <2>1, SeenNumbers DEF QuotaInv
  <2>4. Granted' = receiveMaximum
    BY <2>1, <2>2, <2>3 DEF Granted
  <2>5. Between(Granted)'
    BY <2>1, <2>3, <2>4 DEF Between
  <2>6. QED BY <2>1, <2>3, <2>5 DEF QuotaInv, ReceiveQuotaAccounted, Between, Granted
<1>7. ASSUME NEW id \in Ids, HandlePubrel(id) PROVE QuotaInv'
  <2>1. /\ conn = "connected" /\ Write(<<Answer("pubcomp", id)>>)
        /\ UNCHANGED <<conn, open, receiveMaximum, announced, replaced, receiveQuota,
                       leaked, excess>>
    BY <1>7 DEF HandlePubrel, options
  <2>2. open => Pubacks(outgoing') = Pubacks(outgoing)
    <3>1. Answer("pubcomp", id) \in AnswerPacket /\ Answer("pubcomp", id).type # "puback"
      BY DEF Answer, AnswerPacket, Answers
    <3>2. open => Pubacks(outgoing') = Pubacks(outgoing) + 0
      BY <2>1, <3>1, AnswerWritten
    <3>3. QED BY <3>2, SeenNumbers
  <2>3. QED BY <2>1, <2>2 DEF QuotaInv, ReceiveQuotaAccounted
<1>8. ASSUME UNCHANGED vars PROVE QuotaInv'
  BY <1>8 DEF vars, options, history, QuotaInv, ReceiveQuotaAccounted
<1>9. QED
  BY <1>2, <1>3, <1>4, <1>5, <1>6, <1>7, <1>8, QuotaPublish, QuotaWriteCompletes DEF ClientStep
-----------------------------------------------------------------------------
(* The receivers that wait *)

\* A list that grows by a number above all of its own keeps growing.
LEMMA Increasing ==
    ASSUME NEW s \in Seq(Nat), NEW n \in Nat,
           \A m \in ToSet(s) : m < n,
           \A i, j \in DOMAIN s : i < j => s[i] < s[j]
    PROVE  /\ ToSet(Append(s, n)) = ToSet(s) \cup {n}
           /\ \A i, j \in DOMAIN Append(s, n) : i < j => Append(s, n)[i] < Append(s, n)[j]
<1> DEFINE t == Append(s, n)
<1>1. /\ t \in Seq(Nat) /\ Len(t) = Len(s) + 1
      /\ t[Len(s) + 1] = n /\ \A i \in 1 .. Len(s) : t[i] = s[i]
  BY AppendProperties
<1>2. ToSet(t) = ToSet(s) \cup {n}
  BY ToSetProperties
<1>3. Len(s) \in Nat /\ DOMAIN s = 1 .. Len(s)
  BY LenProperties
<1> HIDE DEF t
<1>4. DOMAIN t = 1 .. Len(t)
  BY <1>1, LenProperties
<1>5. \A i \in 1 .. Len(s) : s[i] < n
  BY ToSetMembers
<1>6. ASSUME NEW i \in DOMAIN t, NEW j \in DOMAIN t, i < j PROVE t[i] < t[j]
  <2>1. i \in 1 .. Len(s) /\ (j \in 1 .. Len(s) \/ j = Len(s) + 1)
    BY <1>1, <1>3, <1>4, <1>6
  <2>2. CASE j \in 1 .. Len(s)
    <3>1. t[i] = s[i] /\ t[j] = s[j]
      BY <1>1, <2>1, <2>2
    <3>2. QED BY <3>1, <2>1, <2>2, <1>3, <1>6
  <2>3. CASE j = Len(s) + 1
    <3>1. t[i] = s[i] /\ t[j] = n
      BY <1>1, <2>1, <2>3
    <3>2. QED BY <3>1, <2>1, <1>5
  <2>4. QED BY <2>1, <2>2, <2>3
<1>7. QED BY <1>2, <1>6 DEF t

\* What handing out one more message adds to what a receiver was due.
LEMMA DueAfter ==
    ASSUME TypeOK, NEW p \in Publication, Deliver(p), UNCHANGED since,
           NEW r \in Receivers, since[r] >= 0, since[r] <= Len(delivered)
    PROVE  /\ Due(r) \subseteq 1 .. Len(delivered)
           /\ Due(r)' = IF <<p.topic, FilterOf[r]>> \in Matches
                        THEN Due(r) \cup {Len(delivered) + 1} ELSE Due(r)
<1>1. since[r] \in Nat /\ since' = since
  BY DEF TypeOK
<1>2. delivered \in Seq(Publication) /\ delivered' = Append(delivered, p)
  BY DEF TypeOK, Deliver
<1>3. /\ Len(delivered) \in Nat /\ Len(delivered') = Len(delivered) + 1
      /\ delivered'[Len(delivered) + 1] = p
      /\ \A i \in 1 .. Len(delivered) : delivered'[i] = delivered[i]
  BY <1>2, AppendProperties, LenProperties
<1>4. Due(r) \subseteq 1 .. Len(delivered)
  BY <1>1, <1>3 DEF Due
<1>5. ASSUME NEW n
      PROVE  n \in Due(r)' <=> \/ n \in Due(r)
                               \/ n = Len(delivered) + 1 /\ <<p.topic, FilterOf[r]>> \in Matches
  <2>1. n \in Due(r)' <=> /\ n \in since[r] + 1 .. Len(delivered) + 1
                          /\ <<delivered'[n].topic, FilterOf[r]>> \in Matches
    BY <1>1, <1>3 DEF Due
  <2>2. n \in Due(r) <=> /\ n \in since[r] + 1 .. Len(delivered)
                         /\ <<delivered[n].topic, FilterOf[r]>> \in Matches
    BY DEF Due
  <2>3. CASE n \in since[r] + 1 .. Len(delivered)
    <3>1. /\ n \in 1 .. Len(delivered) /\ n # Len(delivered) + 1
          /\ n \in since[r] + 1 .. Len(delivered) + 1
      BY <1>1, <1>3, <2>3
    <3>2. QED BY <3>1, <1>3, <2>1, <2>2, <2>3
  <2>4. CASE n = Len(delivered) + 1
    <3>1. n \in since[r] + 1 .. Len(delivered) + 1 /\ n \notin since[r] + 1 .. Len(delivered)
      BY <1>1, <1>3, <2>4
    <3>2. QED BY <3>1, <1>3, <2>1, <2>2, <2>4
  <2>5. CASE n \notin since[r] + 1 .. Len(delivered) /\ n # Len(delivered) + 1
    <3>1. n \notin since[r] + 1 .. Len(delivered) + 1
      BY <1>1, <1>3, <2>5
    <3>2. QED BY <3>1, <2>1, <2>2, <2>5
  <2>6. QED BY <2>3, <2>4, <2>5
<1>6. Due(r)' = IF <<p.topic, FilterOf[r]>> \in Matches
                THEN Due(r) \cup {Len(delivered) + 1} ELSE Due(r)
  BY <1>5
<1>7. QED BY <1>4, <1>6

\* What WaitersInv says of one receiver.
Served(r) ==
    /\ ToSet(told[r]) = IF r \in Loops THEN Due(r) ELSE Earliest(Due(r))
    /\ \A i, j \in DOMAIN told[r] : i < j => told[r][i] < told[r][j]

LEMMA DeliverServes ==
    ASSUME TypeOK, WaitersInv, NEW p \in Publication, Deliver(p), UNCHANGED since,
           NEW r \in Receivers, since[r] >= 0
    PROVE  /\ Served(r)'
           /\ \A f \in Filters :
                r \in waiters'[f] <=> f = FilterOf[r] /\ (r \in Loops \/ Due(r)' = {})
<1> DEFINE n == Len(delivered) + 1
           match == <<p.topic, FilterOf[r]>> \in Matches
<1>1. /\ n \in Nat /\ since[r] <= Len(delivered) /\ FilterOf[r] \in Filters
      /\ told[r] \in Seq(Nat)
  BY LenProperties, WaitersAssumption DEF TypeOK, WaitersInv
<1>2. Served(r) /\ \A f \in Filters :
        r \in waiters[f] <=> f = FilterOf[r] /\ (r \in Loops \/ Due(r) = {})
  BY DEF WaitersInv, WaitersServed, Served
<1>3. Due(r) \subseteq 1 .. n - 1 /\ Due(r)' = IF match THEN Due(r) \cup {n} ELSE Due(r)
  BY <1>1, DueAfter DEF TypeOK
<1>4. told'[r] = IF match /\ (r \in Loops \/ Due(r) = {}) THEN Append(told[r], n) ELSE told[r]
  <2>1. r \in waiters[FilterOf[r]] <=> r \in Loops \/ Due(r) = {}
    BY <1>1, <1>2
  <2>2. told'[r] = IF match /\ r \in waiters[FilterOf[r]] THEN Append(told[r], n) ELSE told[r]
    BY <1>1 DEF Deliver
  <2>3. QED BY <2>1, <2>2
<1>5. \A f \in Filters : r \in waiters'[f] <=>
        r \in waiters[f] /\ (<<p.topic, f>> \in Matches => r \in Loops)
  BY DEF Deliver, StillWaiting, TypeOK
<1>6. \A m \in Due(r) : m \in Nat /\ m < n
  BY <1>1, <1>3
<1> HIDE DEF n, match
<1>7. \A f \in Filters :
        r \in waiters'[f] <=> f = FilterOf[r] /\ (r \in Loops \/ Due(r)' = {})
  <2>1. Due(r)' = {} <=> Due(r) = {} /\ ~match
    BY <1>3
  <2>2. QED BY <1>2, <1>5, <2>1 DEF match
<1>8. CASE match /\ (r \in Loops \/ Due(r) = {})
  <2>1. ToSet(told[r]) = Due(r)
    <3>1. Due(r) = {} => Earliest(Due(r)) = {}
      BY DEF Earliest
    <3>2. QED BY <3>1, <1>2, <1>8 DEF Served
  <2>2. \A i, j \in DOMAIN told[r] : i < j => told[r][i] < told[r][j]
    BY <1>2 DEF Served
  <2>3. /\ ToSet(Append(told[r], n)) = ToSet(told[r]) \cup {n}
        /\ \A i, j \in DOMAIN Append(told[r], n) :
             i < j => Append(told[r], n)[i] < Append(told[r], n)[j]
    BY <1>1, <1>6, <2>1, <2>2, Increasing
  <2>4. told'[r] = Append(told[r], n) /\ Due(r)' = Due(r) \cup {n}
    BY <1>3, <1>4, <1>8
  <2>5. ToSet(told'[r]) = Due(r)'
    BY <2>1, <2>3, <2>4
  <2>6. r \notin Loops => Earliest(Due(r)') = Due(r)'
    <3>1. r \notin Loops => Due(r)' = {n}
      BY <2>4, <1>8
    <3>2. Earliest({n}) = {n}
      BY <1>1 DEF Earliest
    <3>3. QED BY <3>1, <3>2
  <2>7. ToSet(told'[r]) = IF r \in Loops THEN Due(r)' ELSE Earliest(Due(r)')
    BY <2>5, <2>6
  <2>8. \A i, j \in DOMAIN told'[r] : i < j => told'[r][i] < told'[r][j]
    BY <2>3, <2>4
  <2>9. QED BY <1>7, <2>7, <2>8 DEF Served, Earliest
<1>9. CASE match /\ r \notin Loops /\ Due(r) # {}
  <2>1. told'[r] = told[r] /\ Due(r)' = Due(r) \cup {n}
    BY <1>3, <1>4, <1>9
  <2>2. Earliest(Due(r)') = Earliest(Due(r))
    <3>1. PICK m \in Due(r) : TRUE
      BY <1>9
    <3>2. \A k \in Due(r) : (k <= n /\ ~(n <= k))
      BY <1>1, <1>6
    <3>3. QED BY <2>1, <3>1, <3>2 DEF Earliest
  <2>3. QED BY <1>2, <1>7, <1>9, <2>1, <2>2 DEF Served, Earliest
<1>10. CASE ~match
  <2>1. told'[r] = told[r] /\ Due(r)' = Due(r)
    BY <1>3, <1>4, <1>10
  <2>2. QED BY <1>2, <1>7, <2>1 DEF Served, Earliest
<1>11. QED BY <1>8, <1>9, <1>10

LEMMA DeliverWaiters ==
    ASSUME TypeOK, WaitersInv, NEW p \in Publication, Deliver(p), UNCHANGED since
    PROVE  WaitersInv'
<1>1. /\ delivered \in Seq(Publication) /\ Len(delivered) \in Nat
      /\ Len(delivered') = Len(delivered) + 1 /\ since' = since
      /\ \A r \in Receivers : since[r] = -1 \/ since[r] \in Nat
  BY AppendProperties, LenProperties DEF TypeOK, Deliver
<1>2. ASSUME NEW r \in Receivers, since[r] = -1
      PROVE  told'[r] = <<>> /\ \A f \in Filters : r \notin waiters'[f]
  <2>1. told[r] = <<>> /\ ~(since[r] >= 0) /\ \A f \in Filters : r \notin waiters[f]
    BY <1>2 DEF WaitersInv
  <2>2. QED BY <2>1, WaitersAssumption DEF Deliver, StillWaiting, TypeOK
<1>3. ASSUME NEW r \in Receivers, since[r] >= 0
      PROVE  /\ Served(r)'
             /\ \A f \in Filters :
                  r \in waiters'[f] <=> f = FilterOf[r] /\ (r \in Loops \/ Due(r)' = {})
  BY <1>3, DeliverServes
<1>4. \A r \in Receivers : since'[r] <= Len(delivered')
  BY <1>1 DEF WaitersInv
<1>5. ASSUME NEW r \in Receivers
      PROVE  /\ since'[r] <= Len(delivered')
             /\ since'[r] = -1 => told'[r] = <<>>
             /\ \A f \in Filters :
                  r \in waiters'[f] <=> /\ f = FilterOf[r]
                                        /\ since'[r] >= 0
                                        /\ r \in Loops \/ Due(r)' = {}
             /\ since'[r] >= 0 => Served(r)'
  <2>1. CASE since[r] = -1
    <3>1. ~(since'[r] >= 0)
      BY <1>1, <2>1
    <3>2. QED BY <3>1, <2>1, <1>2, <1>4
  <2>2. CASE since[r] >= 0
    <3>1. since'[r] >= 0 /\ since'[r] # -1
      BY <1>1, <2>2
    <3>2. QED BY <3>1, <2>2, <1>3, <1>4
  <2>3. QED BY <1>1, <2>1, <2>2
<1>6. QED BY <1>5 DEF WaitersInv, WaitersServed, Served

LEMMA WaitersStep ==
    ASSUME TypeOK, WaitersInv, [ClientStep]_vars
    PROVE  WaitersInv'
<1>1. CASE UNCHANGED <<delivered, told, since, waiters>>
  BY <1>1 DEF WaitersInv, WaitersServed, Due, Earliest
<1>2. ASSUME NEW r \in Receivers, Subscribe(r) PROVE WaitersInv'
  <2>1. /\ since[r] = -1 /\ since' = [since EXCEPT ![r] = Len(delivered)]
        /\ waiters' = [waiters EXCEPT ![FilterOf[r]] = @ \cup {r}]
        /\ delivered' = delivered /\ told' = told
    BY <1>2 DEF Subscribe
  <2>2. Len(delivered) \in Nat /\ since \in [Receivers -> {-1} \cup Nat]
        /\ waiters \in [Filters -> SUBSET Receivers] /\ FilterOf[r] \in Filters
    BY LenProperties, WaitersAssumption DEF TypeOK
  <2>3. /\ \A s \in Receivers : since'[s] = IF s = r THEN Len(delivered) ELSE since[s]
        /\ \A s \in Receivers, f \in Filters :
             s \in waiters'[f] <=> s \in waiters[f] \/ (s = r /\ f = FilterOf[r])
    <3>1. \A s \in Receivers : since'[s] = IF s = r THEN Len(delivered) ELSE since[s]
      BY <2>1, <2>2
    <3>2. \A f \in Filters :
            waiters'[f] = IF f = FilterOf[r] THEN waiters[f] \cup {r} ELSE waiters[f]
      BY <2>1, <2>2
    <3>3. QED BY <3>1, <3>2
  <2>4. /\ told'[r] = <<>> /\ since'[r] >= 0 /\ since'[r] # -1
        /\ since'[r] <= Len(delivered') /\ Due(r)' = {}
        /\ \A f \in Filters : r \in waiters'[f] <=> f = FilterOf[r]
    <3>1. told[r] = <<>> /\ \A f \in Filters : r \notin waiters[f]
      <4>1. ~(since[r] >= 0)
        BY <2>1
      <4>2. QED BY <2>1, <4>1 DEF WaitersInv
    <3>2. Due(r)' = {}
      <4>1. since'[r] + 1 .. Len(delivered') = {}
        BY <2>1, <2>2, <2>3
      <4>2. QED BY <4>1 DEF Due
    <3>3. QED BY <3>1, <3>2, <2>1, <2>2, <2>3
  <2>5. Served(r)'
    <3>1. ToSet(told'[r]) = {} /\ DOMAIN told'[r] = {}
      BY <2>4 DEF ToSet
    <3>2. QED BY <2>4, <3>1 DEF Served, Earliest
  <2>6. ASSUME NEW s \in Receivers, s # r
        PROVE  /\ since'[s] = since[s] /\ told'[s] = told[s] /\ Due(s)' = Due(s)
               /\ \A f \in Filters : s \in waiters'[f] <=> s \in waiters[f]
    BY <2>1, <2>3, <2>6 DEF Due
  <2>7. ASSUME NEW s \in Receivers, s # r
        PROVE  /\ since'[s] <= Len(delivered')
               /\ since'[s] = -1 => told'[s] = <<>>
               /\ \A f \in Filters :
                    s \in waiters'[f] <=> /\ f = FilterOf[s]
                                          /\ since'[s] >= 0
                                          /\ s \in Loops \/ Due(s)' = {}
               /\ since'[s] >= 0 => Served(s)'
    <3>1. /\ since[s] >= 0 => Served(s)
          /\ since[s] <= Len(delivered)
          /\ since[s] = -1 => told[s] = <<>>
          /\ \A f \in Filters :
               s \in waiters[f] <=> /\ f = FilterOf[s]
                                    /\ since[s] >= 0
                                    /\ s \in Loops \/ Due(s) = {}
      BY DEF WaitersInv, WaitersServed, Served
    <3>2. /\ since'[s] = since[s] /\ told'[s] = told[s] /\ Due(s)' = Due(s)
          /\ \A f \in Filters : s \in waiters'[f] <=> s \in waiters[f]
      BY <2>6, <2>7
    <3>3. Served(s)' <=> Served(s)
      BY <3>2 DEF Served, Earliest
    <3>4. QED BY <2>1, <3>1, <3>2, <3>3
  <2>8. ASSUME NEW s \in Receivers
        PROVE  /\ since'[s] <= Len(delivered')
               /\ since'[s] = -1 => told'[s] = <<>>
               /\ \A f \in Filters :
                    s \in waiters'[f] <=> /\ f = FilterOf[s]
                                          /\ since'[s] >= 0
                                          /\ s \in Loops \/ Due(s)' = {}
               /\ since'[s] >= 0 => Served(s)'
    <3>1. CASE s = r
      BY <2>4, <2>5, <3>1
    <3>2. CASE s # r
      BY <2>7, <3>2
    <3>3. QED BY <3>1, <3>2
  <2>9. QED BY <2>8 DEF WaitersInv, WaitersServed, Served
<1>3. ASSUME NEW p \in Publication, HandlePublish(p) PROVE WaitersInv'
  <2>1. UNCHANGED since /\ (Deliver(p) \/ DeliverNothing)
    BY <1>3 DEF HandlePublish
  <2>2. QED BY <2>1, <1>1, DeliverWaiters DEF DeliverNothing
<1>4. ASSUME NEW id \in Ids, HandlePubrel(id) PROVE WaitersInv'
  <2>1. UNCHANGED since
    BY <1>4 DEF HandlePubrel
  <2>2. ASSUME NEW i \in DOMAIN stored, Deliver(stored[i]) PROVE WaitersInv'
    <3>1. stored[i] \in Publication
      BY LenProperties, ElementOfSeq DEF TypeOK
    <3>2. QED BY <3>1, <2>1, <2>2, DeliverWaiters
  <2>3. QED BY <2>1, <2>2, <1>1, <1>4 DEF HandlePubrel, DeliverNothing
<1>5. ASSUME NEW m \in ReceiveMaxima, Handshaker(m) PROVE WaitersInv'
  BY <1>1, <1>5 DEF Handshaker, history
<1>6. CASE StartHandshake \/ Close \/ HandleConnack \/ WriteCompletes \/ UNCHANGED vars
  BY <1>1, <1>6 DEF StartHandshake, Close, HandleConnack, WriteCompletes, vars, history
<1>7. QED BY <1>2, <1>3, <1>4, <1>5, <1>6 DEF ClientStep
-----------------------------------------------------------------------------
(* The theorems *)

LEMMA InitHolds ==
    ASSUME Init
    PROVE  IInv
<1> USE DEF Init
<1>1. TypeOK
  BY QuotaAssumption DEF TypeOK
<1>2. KeptInv
  <2>1. Len(stored) = 0 /\ Len(delivered) = 0 /\ DOMAIN stored = {} /\ DOMAIN delivered = {}
    OBVIOUS
  <2>2. QED BY <2>1 DEF KeptInv, StoredOnce, DeliveredOnce
<1>3. QuotaInv
  BY DEF QuotaInv, ReceiveQuotaAccounted, MaximaSeen
<1>4. WaitersInv
  <2>1. Len(delivered) = 0 /\ \A r \in Receivers : ~(since[r] >= 0) /\ since[r] <= 0
    OBVIOUS
  <2>2. QED BY <2>1 DEF WaitersInv, WaitersServed
<1>5. QED BY <1>1, <1>2, <1>3, <1>4 DEF IInv

LEMMA StepHolds ==
    ASSUME IInv, [Next]_vars
    PROVE  IInv'
<1>1. TypeOK /\ KeptInv /\ QuotaInv /\ WaitersInv /\ [ClientStep]_vars
  BY NextIsClientStep DEF IInv
<1>2. TypeOK'
  BY <1>1, TypeStep
<1>3. QED BY <1>1, <1>2, KeptStep, QuotaStep, WaitersStep DEF IInv

\* The inductive invariant.
THEOREM Inductive == Spec => []IInv
<1>1. Init => IInv
  BY InitHolds
<1>2. IInv /\ [Next]_vars => IInv'
  BY StepHolds
<1>3. QED BY <1>1, <1>2, PTL DEF Spec

\* Every variable keeps its type: the quotas stay between 0 and the receive
\* maximum before any handshake, whatever the server sends.
THEOREM TypeCorrect == Spec => []TypeOK
<1>1. IInv => TypeOK
  BY DEF IInv
<1>2. QED BY <1>1, Inductive, PTL

\* No message is kept twice or kept after it was handed out, whatever
\* identifiers the server uses and however often it sends them.
THEOREM StoredCorrect == Spec => []StoredOnce
<1>1. IInv => StoredOnce
  BY DEF IInv, KeptInv
<1>2. QED BY <1>1, Inductive, PTL

\* No PUBLISH is handed to deliver_to_publish_waiters twice.
THEOREM DeliveredCorrect == Spec => []DeliveredOnce
<1>1. IInv => DeliveredOnce
  BY DEF IInv, KeptInv
<1>2. QED BY <1>1, Inductive, PTL

\* The receive quota is always accounted for, by the PUBACKs being written and
\* by the QoS 2 messages that never give theirs back, also while a handshaker
\* replaces the options it is counted against.
THEOREM QuotaCorrect == Spec => []ReceiveQuotaAccounted
<1>1. IInv => ReceiveQuotaAccounted
  BY DEF IInv, QuotaInv
<1>2. QED BY <1>1, Inductive, PTL

\* Every receiver of filtered_subscriber is told what it is due, once and in
\* order, whoever shares its filter and whoever subscribes again meanwhile.
THEOREM WaitersCorrect == Spec => []WaitersServed
<1>1. IInv => WaitersServed
  BY DEF IInv, WaitersInv
<1>2. QED BY <1>1, Inductive, PTL

-----------------------------------------------------------------------------
(* THE CLIENT AND ITS SERVER *)

ServerPacket ==
    [type : {"connack"}]
    \cup [type : {"publish"}, message : Publication]
    \cup [type : {"pubrel"}, id : Ids]
Exchange == [message : Publication, stage : {"sent", "released"}]

SessionTypeOK ==
    /\ TypeOK
    /\ toClient \in Seq(ServerPacket)
    /\ toServer \in Seq(AnswerPacket)
    /\ exchanges \subseteq Exchange
    /\ published \in Seq(Publication)

Replies == toServer \o outgoing
Kept == ToSet(stored)
Handed == ToSet(delivered)

MessagePacket(m) == [type |-> "publish", message |-> m]

\* Where the packets about a message, or an identifier, are.
SentAt(m) == Positions(toClient, MessagePacket(m))
RelAt(id) == Positions(toClient, Pubrel(id))
ReplyAt(type, id) == Positions(Replies, Answer(type, id))

\* What is under way, kept, handed out or remembered was published.
IsPublished(m) == m.op \in 1 .. Len(published) /\ published[m.op] = m

MessageInv ==
    /\ \A n \in 1 .. Len(published) : published[n].op = n
    /\ \A m \in Publication : SentAt(m) # {} => IsPublished(m)
    /\ \A m \in Kept \cup Handed : IsPublished(m)
    /\ \A e \in exchanges : IsPublished(e.message)

\* The client's side of a QoS 2 exchange, on an open socket or after.  Where a
\* PUBREL comes before a PUBLISH with its identifier, it is about an earlier
\* exchange: nothing of the message has arrived before it.
KeptUnhanded == \A m \in Kept : m.qos = 2 /\ m \notin Handed
StoredApart == \A i, j \in 1 .. Len(stored) : i # j => stored[i].id # stored[j].id
HandedGone == \A m \in Handed : m.qos = 2 => SentAt(m) = {}
ReleasedFirst ==
    \A m \in Publication :
        \A i \in RelAt(m.id), j \in SentAt(m) :
            m.qos = 2 /\ i < j => m \notin Kept /\ \A k \in SentAt(m) : i < k

ClientInv == KeptUnhanded /\ StoredApart /\ HandedGone /\ ReleasedFirst /\ Qos2Once

\* The exchanges the server remembers, on an open socket or after.
OneExchange == \A e, f \in exchanges : e.message.id = f.message.id => e = f
StagesKept == \A e \in exchanges : e.message.qos > 0 /\ (e.message.qos = 1 => e.stage = "sent")
SentKnown == \A m \in Publication : SentAt(m) # {} /\ m.qos > 0 => \E e \in exchanges : e.message = m
SentOnce == \A m \in Publication : m.qos = 1 => \A i, j \in SentAt(m) : i = j
SentAfresh ==
    \A e \in exchanges : e.message.qos = 2 /\ e.stage = "sent" =>
        /\ e.message \notin Handed
        /\ \A i \in RelAt(e.message.id) :
            e.message \notin Kept /\ \A k \in SentAt(e.message) : i < k
Remembered ==
    \A i \in 1 .. Len(published) :
        published[i].qos > 0 =>
            (\E e \in exchanges : e.message.op = i) \/ \E m \in Handed : m.op = i

ExchangeInv ==
    OneExchange /\ StagesKept /\ SentKnown /\ SentOnce /\ SentAfresh /\ Remembered

\* What the answers under way say, as long as the socket is open.
KeptKnown == \A m \in Kept : \E e \in exchanges : e.message = m
RecKnown ==
    \A id \in Ids : ReplyAt("pubrec", id) # {} =>
        \E e \in exchanges : e.message.id = id /\ e.message.qos = 2
AckKnown ==
    \A id \in Ids : ReplyAt("puback", id) # {} =>
        \E e \in exchanges : e.message.id = id /\ e.message.qos = 1 /\ e.message \in Handed
AckOnce == \A id \in Ids : \A i, j \in ReplyAt("puback", id) : i = j
AckAfter ==
    \A e \in exchanges :
        e.message.qos = 1 /\ SentAt(e.message) # {} => ReplyAt("puback", e.message.id) = {}
RecOfSent ==
    \A e \in exchanges : e.message.qos = 2 /\ e.stage = "sent" =>
        /\ ReplyAt("pubrec", e.message.id) # {} => e.message \in Kept
        /\ \A i \in ReplyAt("pubrec", e.message.id), j \in ReplyAt("pubcomp", e.message.id) : j < i
CompOfReleased ==
    \A e \in exchanges : e.message.qos = 2 /\ e.stage = "released" =>
        /\ e.message \in Kept \cup Handed
        /\ ReplyAt("pubcomp", e.message.id) # {} => e.message \in Handed
        /\ \A i \in ReplyAt("pubrec", e.message.id), j \in ReplyAt("pubcomp", e.message.id) : i < j

ReplyInv ==
    KeptKnown /\ RecKnown /\ AckKnown /\ AckOnce /\ AckAfter /\ RecOfSent /\ CompOfReleased

\* No options since brought a smaller receive maximum than the CONNECT.
Generous == \A m \in replaced : m >= announced

\* The exchanges whose PUBLISH has not arrived.
Pending == {e \in exchanges : SentAt(e.message) # {}}

\* The server's window and the client's quota.
NothingYet ==
    /\ conn = "idle" => exchanges = {} /\ toClient = <<>> /\ replaced = {}
    /\ conn # "connected" => outgoing = <<>> /\ leaked = 0 /\ excess = 0
WindowHeld == IsFiniteSet(exchanges) /\ Cardinality(exchanges) <= announced
MaximumHeld == conn # "idle" /\ Generous => receiveMaximum >= announced
QuotaHeld ==
    conn = "connected" /\ Generous /\ leaked = 0 =>
        /\ open => receiveQuota + Pubacks(outgoing) >= announced
        /\ ~open => Cardinality(Pending) <= receiveQuota

WindowInv == NothingYet /\ WindowHeld /\ MaximumHeld /\ QuotaHeld /\ NotAccused

SessionIInv ==
    /\ SessionTypeOK
    /\ MessageInv
    /\ ClientInv
    /\ ExchangeInv
    /\ open => ReplyInv
    /\ WindowInv
-----------------------------------------------------------------------------
(* Steps and types *)

LEMMA ServerPackets ==
    ASSUME NEW p \in ServerPacket
    PROVE  /\ p.type = "publish" => p.message \in Publication /\ p = MessagePacket(p.message)
           /\ p.type = "pubrel" => p.id \in Ids /\ p = Pubrel(p.id)
           /\ \A m \in Publication : MessagePacket(m) \in ServerPacket
           /\ \A id \in Ids : Pubrel(id) \in ServerPacket
           /\ [type |-> "connack"] \in ServerPacket
BY DEF ServerPacket, MessagePacket, Pubrel

\* The client's part in receiving the packet at the head of the stream.
ReceiveConnack == Head(toClient).type = "connack" /\ HandleConnack
ReceivePublish(m) == Head(toClient) = MessagePacket(m) /\ HandlePublish(m)
ReceivePubrel(id) == Head(toClient) = Pubrel(id) /\ HandlePubrel(id)
Received == toClient # <<>> /\ toClient' = Tail(toClient) /\ UNCHANGED <<toServer, server>>

LEMMA ClientReceives ==
    ASSUME SessionTypeOK, ClientReceive
    PROVE  /\ Received
           /\ \/ ReceiveConnack
              \/ \E m \in Publication : ReceivePublish(m)
              \/ \E id \in Ids : ReceivePubrel(id)
<1>1. toClient \in Seq(ServerPacket) /\ toClient # <<>>
  BY DEF SessionTypeOK, ClientReceive
<1>2. Head(toClient) \in ServerPacket
  BY <1>1, HeadTailProperties
<1> DEFINE p == Head(toClient)
<1>3. /\ p.type = "publish" => p.message \in Publication /\ p = MessagePacket(p.message)
      /\ p.type = "pubrel" => p.id \in Ids /\ p = Pubrel(p.id)
  BY <1>2, ServerPackets
<1> HIDE DEF p
<1>4. \/ p.type = "connack" /\ HandleConnack
      \/ p.type = "publish" /\ HandlePublish(p.message)
      \/ p.type = "pubrel" /\ HandlePubrel(p.id)
  BY DEF ClientReceive, p
<1>5. \/ ReceiveConnack
      \/ \E m \in Publication : ReceivePublish(m)
      \/ \E id \in Ids : ReceivePubrel(id)
  BY <1>3, <1>4 DEF ReceiveConnack, ReceivePublish, ReceivePubrel, p
<1>6. QED BY <1>5 DEF ClientReceive, Received

\* The steps of the composition, one by one.
LEMMA SessionSteps ==
    ASSUME SessionTypeOK, [SessionNext]_sessionVars
    PROVE  \/ \E m \in Publication : m.op = Len(published) + 1 /\ ServerPublish(m)
           \/ \E e \in exchanges : ServerResend(e)
           \/ ServerReceive
           \/ ClientConnects
           \/ Received /\ ReceiveConnack
           \/ \E m \in Publication : Received /\ ReceivePublish(m)
           \/ \E id \in Ids : Received /\ ReceivePubrel(id)
           \/ ClientWrites
           \/ Disconnect
           \/ \E m \in ReceiveMaxima : Handshaker(m) /\ UNCHANGED <<toClient, toServer, server>>
           \/ \E r \in Receivers : Subscribe(r) /\ UNCHANGED <<toClient, toServer, server>>
           \/ UNCHANGED sessionVars
<1>1. ASSUME NEW qos \in QosLevels, NEW id \in Ids, NEW topic \in Topics,
             ServerPublish([op |-> Len(published) + 1, qos |-> qos, id |-> id, topic |-> topic])
      PROVE  \E m \in Publication : m.op = Len(published) + 1 /\ ServerPublish(m)
  <2> DEFINE m == [op |-> Len(published) + 1, qos |-> qos, id |-> id, topic |-> topic]
  <2>1. m \in Publication /\ m.op = Len(published) + 1
    BY LenProperties DEF SessionTypeOK, Publication
  <2>2. ServerPublish(m)
    BY <1>1
  <2>3. QED BY <2>1, <2>2
<1>2. QED BY <1>1, ClientReceives DEF SessionNext

LEMMA SessionClientStep ==
    ASSUME SessionTypeOK, [SessionNext]_sessionVars
    PROVE  [ClientStep]_vars
<1>1. CASE \E m \in Publication : m.op = Len(published) + 1 /\ ServerPublish(m)
  BY <1>1 DEF ServerPublish
<1>2. CASE \/ \E e \in exchanges : ServerResend(e)
           \/ ServerReceive
           \/ UNCHANGED sessionVars
  BY <1>2 DEF ServerResend, ServerReceive, sessionVars
<1>3. CASE \/ ClientConnects
           \/ Received /\ ReceiveConnack
           \/ \E m \in Publication : Received /\ ReceivePublish(m)
           \/ \E id \in Ids : Received /\ ReceivePubrel(id)
           \/ ClientWrites
           \/ Disconnect
           \/ \E m \in ReceiveMaxima : Handshaker(m) /\ UNCHANGED <<toClient, toServer, server>>
           \/ \E r \in Receivers : Subscribe(r) /\ UNCHANGED <<toClient, toServer, server>>
  BY <1>3 DEF ClientConnects, ReceiveConnack, ReceivePublish, ReceivePubrel, ClientWrites,
              Disconnect, ClientStep
<1>4. QED BY <1>1, <1>2, <1>3, SessionSteps

LEMMA ConcernedProperties ==
    ASSUME SessionTypeOK, NEW answer \in AnswerPacket
    PROVE  /\ Concerned(answer) \subseteq exchanges
           /\ \A e \in Concerned(answer) : /\ e \in Exchange
                                           /\ [e EXCEPT !.stage = "released"] \in Exchange
                                           /\ [e EXCEPT !.stage = "released"].message = e.message
                                           /\ [e EXCEPT !.stage = "released"].stage = "released"
BY DEF SessionTypeOK, Concerned, Exchange

LEMMA SessionTypeStep ==
    ASSUME SessionTypeOK, [SessionNext]_sessionVars
    PROVE  SessionTypeOK'
<1>1. TypeOK'
  BY SessionClientStep, TypeStep DEF SessionTypeOK
<1> USE <1>1
<1>2. /\ toClient \in Seq(ServerPacket) /\ toServer \in Seq(AnswerPacket)
      /\ exchanges \subseteq Exchange /\ published \in Seq(Publication)
  BY DEF SessionTypeOK
<1>3. /\ \A m \in Publication : MessagePacket(m) \in ServerPacket
      /\ \A id \in Ids : Pubrel(id) \in ServerPacket
      /\ [type |-> "connack"] \in ServerPacket
  BY DEF ServerPacket, MessagePacket, Pubrel
<1>4. \A p \in ServerPacket : Append(toClient, p) \in Seq(ServerPacket)
  BY <1>2, AppendProperties
<1>5. ASSUME NEW m \in Publication, ServerPublish(m) PROVE SessionTypeOK'
  <2>1. published' \in Seq(Publication)
    <3>1. published' = Append(published, m)
      BY <1>5 DEF ServerPublish
    <3>2. QED BY <3>1, <1>2, AppendProperties
  <2>2. [message |-> m, stage |-> "sent"] \in Exchange
    BY DEF Exchange
  <2>3. toClient' \in Seq(ServerPacket)
    <3>1. toClient' = Append(toClient, MessagePacket(m))
      BY <1>5 DEF ServerPublish, Publish, MessagePacket
    <3>2. QED BY <3>1, <1>3, <1>4
  <2>4. exchanges' \subseteq Exchange
    BY <1>2, <1>5, <2>2 DEF ServerPublish
  <2>5. QED BY <1>2, <1>5, <2>1, <2>3, <2>4 DEF SessionTypeOK, ServerPublish
<1>6. ASSUME NEW e \in exchanges, ServerResend(e) PROVE SessionTypeOK'
  <2>1. e.message \in Publication /\ e.message.id \in Ids
    BY <1>2 DEF Exchange, Publication
  <2>2. toClient' \in Seq(ServerPacket)
    <3>1. toClient' = Append(toClient, MessagePacket(e.message))
          \/ toClient' = Append(toClient, Pubrel(e.message.id))
      BY <1>6 DEF ServerResend, Publish, MessagePacket
    <3>2. QED BY <3>1, <2>1, <1>3, <1>4
  <2>3. QED BY <1>2, <1>6, <2>2 DEF SessionTypeOK, ServerResend
<1>7. ASSUME ServerReceive PROVE SessionTypeOK'
  <2>1. Head(toServer) \in AnswerPacket /\ Tail(toServer) \in Seq(AnswerPacket)
    BY <1>2, <1>7, HeadTailProperties DEF ServerReceive
  <2> DEFINE answer == Head(toServer)
  <2>2. answer.id \in Ids
    BY <2>1 DEF AnswerPacket
  <2>3. Append(toClient, Pubrel(answer.id)) \in Seq(ServerPacket)
    BY <2>2, <1>3, <1>4
  <2>4. {[e EXCEPT !.stage = "released"] : e \in Concerned(answer)} \subseteq Exchange
    BY <2>1, ConcernedProperties
  <2>5. exchanges' \subseteq Exchange /\ toClient' \in Seq(ServerPacket)
    BY <1>2, <1>7, <2>3, <2>4 DEF ServerReceive
  <2>6. QED BY <1>2, <1>7, <2>1, <2>5 DEF SessionTypeOK, ServerReceive
<1>8. ASSUME ClientConnects PROVE SessionTypeOK'
  BY <1>2, <1>3, <1>4, <1>8 DEF SessionTypeOK, ClientConnects, server
<1>9. ASSUME Received PROVE SessionTypeOK'
  <2>1. Tail(toClient) \in Seq(ServerPacket)
    BY <1>2, <1>9, HeadTailProperties DEF Received
  <2>2. QED BY <1>2, <1>9, <2>1 DEF SessionTypeOK, Received, server
<1>10. ASSUME ClientWrites PROVE SessionTypeOK'
  <2>1. outgoing \in Seq(OutPacket) /\ outgoing # <<>>
    BY <1>10 DEF ClientWrites, WriteCompletes, SessionTypeOK, TypeOK, OutPacket, AnswerPacket
  <2>2. Head(outgoing) \in OutPacket
    BY <2>1, HeadTailProperties
  <2>3. open' => Head(outgoing) \in AnswerPacket
    <3>1. open' => Head(outgoing).type # "disconnect"
      BY <1>10 DEF ClientWrites, WriteCompletes
    <3>2. QED BY <3>1, <2>2 DEF OutPacket, DisconnectPacket
  <2>4. toServer' \in Seq(AnswerPacket)
    BY <1>2, <1>10, <2>3, AppendProperties DEF ClientWrites
  <2>5. QED BY <1>2, <1>10, <2>4 DEF SessionTypeOK, ClientWrites, server
<1>11. ASSUME Disconnect PROVE SessionTypeOK'
  <2>1. \A n \in 0 .. Len(toClient) : SubSeq(toClient, 1, n) \in Seq(ServerPacket)
    BY <1>2, ToSetProperties
  <2>2. QED BY <1>2, <1>11, <2>1 DEF SessionTypeOK, Disconnect, server
<1>12. CASE UNCHANGED <<toClient, toServer, server>>
  BY <1>2, <1>12 DEF SessionTypeOK, server
<1>13. QED
  BY <1>5, <1>6, <1>7, <1>8, <1>9, <1>10, <1>11, <1>12, SessionSteps DEF sessionVars
-----------------------------------------------------------------------------
(* The queues and the lists *)

\* Where packets are in the stream to the client.
LEMMA ClientQueue ==
    ASSUME SessionTypeOK
    PROVE  /\ toClient \in Seq(ServerPacket) /\ Len(toClient) \in Nat
           /\ \A m : SentAt(m) \subseteq 1 .. Len(toClient)
           /\ \A id : RelAt(id) \subseteq 1 .. Len(toClient)
           /\ \A m : \A i \in SentAt(m) : i \in Nat /\ i >= 1
           /\ \A id : \A i \in RelAt(id) : i \in Nat /\ i >= 1
<1>1. toClient \in Seq(ServerPacket) /\ Len(toClient) \in Nat
  BY LenProperties DEF SessionTypeOK
<1>2. /\ \A m : SentAt(m) \subseteq 1 .. Len(toClient)
      /\ \A id : RelAt(id) \subseteq 1 .. Len(toClient)
  BY <1>1, PositionsProperties DEF SentAt, RelAt
<1>3. QED BY <1>1, <1>2

LEMMA PacketsDiffer ==
    /\ \A m, n : MessagePacket(m) = MessagePacket(n) <=> m = n
    /\ \A id, jd : Pubrel(id) = Pubrel(jd) <=> id = jd
    /\ \A m, id : MessagePacket(m) # Pubrel(id)
    /\ \A m : MessagePacket(m) # [type |-> "connack"]
    /\ \A id : Pubrel(id) # [type |-> "connack"]
BY DEF MessagePacket, Pubrel

\* Another packet at its end.
LEMMA ClientGets ==
    ASSUME SessionTypeOK, NEW p \in ServerPacket, toClient' = Append(toClient, p)
    PROVE  /\ \A m : SentAt(m)' = SentAt(m) \cup (IF p = MessagePacket(m) THEN {Len(toClient) + 1} ELSE {})
           /\ \A id : RelAt(id)' = RelAt(id) \cup (IF p = Pubrel(id) THEN {Len(toClient) + 1} ELSE {})
<1>1. toClient \in Seq(ServerPacket)
  BY DEF SessionTypeOK
<1>2. \A x : Positions(Append(toClient, p), x)
             = Positions(toClient, x) \cup (IF x = p THEN {Len(toClient) + 1} ELSE {})
  BY <1>1, PositionsProperties
<1>3. ASSUME NEW m
      PROVE  SentAt(m)' = SentAt(m) \cup (IF p = MessagePacket(m) THEN {Len(toClient) + 1} ELSE {})
  <2>1. SentAt(m)' = Positions(Append(toClient, p), MessagePacket(m))
    BY DEF SentAt, MessagePacket
  <2>2. QED BY <2>1, <1>2 DEF SentAt
<1>4. ASSUME NEW id
      PROVE  RelAt(id)' = RelAt(id) \cup (IF p = Pubrel(id) THEN {Len(toClient) + 1} ELSE {})
  <2>1. RelAt(id)' = Positions(Append(toClient, p), Pubrel(id))
    BY DEF RelAt, Pubrel
  <2>2. QED BY <2>1, <1>2 DEF RelAt
<1>5. QED BY <1>3, <1>4

\* Another PUBLISH or PUBREL.
LEMMA ClientGetsPublish ==
    ASSUME SessionTypeOK, NEW m \in Publication, toClient' = Append(toClient, MessagePacket(m))
    PROVE  /\ \A n : n # m => SentAt(n)' = SentAt(n)
           /\ SentAt(m)' = SentAt(m) \cup {Len(toClient) + 1}
           /\ \A id : RelAt(id)' = RelAt(id)
<1> DEFINE last == Len(toClient) + 1
<1>1. MessagePacket(m) \in ServerPacket
  BY DEF ServerPacket, MessagePacket
<1>2. /\ \A n : SentAt(n)' = SentAt(n) \cup (IF MessagePacket(m) = MessagePacket(n) THEN {last} ELSE {})
      /\ \A id : RelAt(id)' = RelAt(id) \cup (IF MessagePacket(m) = Pubrel(id) THEN {last} ELSE {})
  BY <1>1, ClientGets
<1>3. \A n : n # m => MessagePacket(m) # MessagePacket(n)
  BY PacketsDiffer
<1>4. \A id : MessagePacket(m) # Pubrel(id)
  BY PacketsDiffer
<1>5. QED BY <1>2, <1>3, <1>4

LEMMA ClientGetsPubrel ==
    ASSUME SessionTypeOK, NEW id \in Ids, toClient' = Append(toClient, Pubrel(id))
    PROVE  /\ \A jd : jd # id => RelAt(jd)' = RelAt(jd)
           /\ RelAt(id)' = RelAt(id) \cup {Len(toClient) + 1}
           /\ \A n : SentAt(n)' = SentAt(n)
<1> DEFINE last == Len(toClient) + 1
<1>1. Pubrel(id) \in ServerPacket
  BY DEF ServerPacket, Pubrel
<1>2. /\ \A n : SentAt(n)' = SentAt(n) \cup (IF Pubrel(id) = MessagePacket(n) THEN {last} ELSE {})
      /\ \A jd : RelAt(jd)' = RelAt(jd) \cup (IF Pubrel(id) = Pubrel(jd) THEN {last} ELSE {})
  BY <1>1, ClientGets
<1>3. \A jd : jd # id => Pubrel(id) # Pubrel(jd)
  BY PacketsDiffer
<1>4. \A n : Pubrel(id) # MessagePacket(n)
  BY PacketsDiffer
<1>5. QED BY <1>2, <1>3, <1>4

\* One packet less at its head: what remains was one place behind.
LEMMA ClientTakes ==
    ASSUME SessionTypeOK, Received
    PROVE  /\ \A m : /\ \A i \in SentAt(m)' : i \in Nat /\ i >= 1 /\ i + 1 \in SentAt(m)
                     /\ \A i \in SentAt(m) : i = 1 \/ i - 1 \in SentAt(m)'
                     /\ Head(toClient) = MessagePacket(m) <=> 1 \in SentAt(m)
           /\ \A id : /\ \A i \in RelAt(id)' : i \in Nat /\ i >= 1 /\ i + 1 \in RelAt(id)
                      /\ Head(toClient) = Pubrel(id) <=> 1 \in RelAt(id)
<1>1. toClient \in Seq(ServerPacket) /\ toClient # <<>> /\ toClient' = Tail(toClient)
  BY DEF SessionTypeOK, Received
<1>2. Tail(toClient) \in Seq(ServerPacket)
  BY <1>1, HeadTailProperties
<1>3. ASSUME NEW x
      PROVE  /\ Head(toClient) = x <=> 1 \in Positions(toClient, x)
             /\ \A i \in Positions(Tail(toClient), x) :
                    i \in Nat /\ i >= 1 /\ i + 1 \in Positions(toClient, x)
             /\ \A i \in Positions(toClient, x) : i = 1 \/ i - 1 \in Positions(Tail(toClient), x)
  <2>1. /\ Head(toClient) = x <=> 1 \in Positions(toClient, x)
        /\ \A i \in Nat : i \in Positions(Tail(toClient), x)
                          <=> i > 0 /\ i + 1 \in Positions(toClient, x)
    BY <1>1, PositionsProperties
  <2>2. /\ Positions(toClient, x) \subseteq 1 .. Len(toClient)
        /\ Positions(Tail(toClient), x) \subseteq 1 .. Len(Tail(toClient))
        /\ Len(toClient) \in Nat /\ Len(Tail(toClient)) \in Nat
    BY <1>1, <1>2, PositionsProperties, LenProperties
  <2>3. /\ \A i \in Positions(toClient, x) : i \in Nat /\ i >= 1
        /\ \A i \in Positions(Tail(toClient), x) : i \in Nat /\ i >= 1
    BY <2>2
  <2>4. ASSUME NEW i \in Positions(toClient, x), i # 1
        PROVE  i - 1 \in Positions(Tail(toClient), x)
    <3>1. i - 1 \in Nat /\ i - 1 > 0 /\ (i - 1) + 1 = i
      BY <2>3, <2>4
    <3>2. QED BY <3>1, <2>1
  <2>5. \A i \in Positions(Tail(toClient), x) : i + 1 \in Positions(toClient, x)
    BY <2>1, <2>3
  <2>6. QED BY <2>1, <2>3, <2>4, <2>5
<1>4. ASSUME NEW m
      PROVE  /\ \A i \in SentAt(m)' : i \in Nat /\ i >= 1 /\ i + 1 \in SentAt(m)
             /\ \A i \in SentAt(m) : i = 1 \/ i - 1 \in SentAt(m)'
             /\ Head(toClient) = MessagePacket(m) <=> 1 \in SentAt(m)
  <2>1. SentAt(m)' = Positions(Tail(toClient), MessagePacket(m))
    BY <1>1 DEF SentAt, MessagePacket
  <2>2. QED BY <2>1, <1>3 DEF SentAt
<1>5. ASSUME NEW id
      PROVE  /\ \A i \in RelAt(id)' : i \in Nat /\ i >= 1 /\ i + 1 \in RelAt(id)
             /\ Head(toClient) = Pubrel(id) <=> 1 \in RelAt(id)
  <2>1. RelAt(id)' = Positions(Tail(toClient), Pubrel(id))
    BY <1>1 DEF RelAt, Pubrel
  <2>2. QED BY <2>1, <1>3 DEF RelAt
<1>6. QED BY <1>4, <1>5

\* A close leaves a beginning of it.
LEMMA ClientLoses ==
    ASSUME SessionTypeOK, NEW n \in 0 .. Len(toClient), toClient' = SubSeq(toClient, 1, n)
    PROVE  /\ \A m : SentAt(m)' \subseteq SentAt(m)
           /\ \A id : RelAt(id)' \subseteq RelAt(id)
<1>1. \A x : Positions(SubSeq(toClient, 1, n), x) \subseteq Positions(toClient, x)
  BY PositionsProperties DEF SessionTypeOK
<1>2. ASSUME NEW m PROVE SentAt(m)' \subseteq SentAt(m)
  <2>1. SentAt(m)' = Positions(SubSeq(toClient, 1, n), MessagePacket(m))
    BY DEF SentAt, MessagePacket
  <2>2. QED BY <2>1, <1>1 DEF SentAt
<1>3. ASSUME NEW id PROVE RelAt(id)' \subseteq RelAt(id)
  <2>1. RelAt(id)' = Positions(SubSeq(toClient, 1, n), Pubrel(id))
    BY DEF RelAt, Pubrel
  <2>2. QED BY <2>1, <1>1 DEF RelAt
<1>4. QED BY <1>2, <1>3

\* Kept and Handed by positions.
LEMMA ListMembers ==
    ASSUME SessionTypeOK
    PROVE  /\ stored \in Seq(Publication) /\ delivered \in Seq(Publication)
           /\ Kept \subseteq Publication /\ Handed \subseteq Publication
           /\ DOMAIN stored = 1 .. Len(stored) /\ DOMAIN delivered = 1 .. Len(delivered)
           /\ \A m : m \in Kept <=> \E i \in 1 .. Len(stored) : m = stored[i]
           /\ \A m : m \in Handed <=> \E i \in 1 .. Len(delivered) : m = delivered[i]
<1>1. stored \in Seq(Publication) /\ delivered \in Seq(Publication)
  BY DEF SessionTypeOK, TypeOK
<1>2. QED BY <1>1, ToSetMembers, LenProperties DEF Kept, Handed

\* What handle_packet(publish) does to them.
LEMMA PublishEffects ==
    ASSUME SessionTypeOK, NEW m \in Publication, HandlePublish(m)
    PROVE  \/ /\ m.qos \in {0, 1}
              /\ stored' = stored /\ Kept' = Kept
              /\ delivered' = Append(delivered, m) /\ Handed' = Handed \cup {m}
           \/ /\ m.qos = 2
              /\ delivered' = delivered /\ Handed' = Handed
              /\ \/ stored' = stored /\ Kept' = Kept /\ \E k \in Kept : k.id = m.id
                 \/ /\ stored' = Append(stored, m) /\ Kept' = Kept \cup {m}
                    /\ \A k \in Kept : k.id # m.id
<1>1. stored \in Seq(Publication) /\ delivered \in Seq(Publication)
  BY ListMembers
<1>2. CASE m.qos \in {0, 1} /\ Deliver(m) /\ stored' = stored
  <2>1. delivered' = Append(delivered, m)
    BY <1>2 DEF Deliver
  <2>2. ToSet(Append(delivered, m)) = ToSet(delivered) \cup {m}
    BY <1>1, ToSetProperties
  <2>3. QED BY <1>2, <2>1, <2>2 DEF Kept, Handed
<1>3. CASE m.qos = 2 /\ DeliverNothing /\ Store(m)
  <2>1. Known(m.id) <=> \E k \in Kept : k.id = m.id
    BY ListMembers DEF Known
  <2>2. ToSet(Append(stored, m)) = ToSet(stored) \cup {m}
    BY <1>1, ToSetProperties
  <2>3. delivered' = delivered /\ Handed' = Handed
    BY <1>3 DEF DeliverNothing, Handed
  <2>4. CASE Known(m.id)
    <3>1. stored' = stored
      BY <1>3, <2>4 DEF Store
    <3>2. QED BY <1>3, <2>1, <2>3, <2>4, <3>1 DEF Kept
  <2>5. CASE ~Known(m.id)
    <3>1. stored' = Append(stored, m)
      BY <1>3, <2>5 DEF Store
    <3>2. Kept' = Kept \cup {m}
      BY <2>2, <3>1 DEF Kept
    <3>3. QED BY <1>3, <2>1, <2>3, <2>5, <3>1, <3>2
  <2>6. QED BY <2>4, <2>5
<1>4. QED BY <1>2, <1>3 DEF HandlePublish

\* What handle_packet(pubrel) does to them.
LEMMA PubrelEffects ==
    ASSUME SessionTypeOK, NEW id \in Ids, HandlePubrel(id),
           StoredApart
    PROVE  /\ StoredApart'
           /\ \/ \E m \in Kept :
                    /\ m.id = id /\ m \in Publication
                    /\ delivered' = Append(delivered, m)
                    /\ Handed' = Handed \cup {m} /\ Kept' = Kept \ {m}
              \/ /\ stored' = stored /\ delivered' = delivered /\ Kept' = Kept /\ Handed' = Handed
                 /\ \A k \in Kept : k.id # id
<1>1. stored \in Seq(Publication) /\ delivered \in Seq(Publication)
  BY ListMembers
<1>2. ASSUME NEW i \in DOMAIN stored, stored[i].id = id, Release(i), Deliver(stored[i])
      PROVE  /\ StoredApart'
             /\ \E m \in Kept :
                    /\ m.id = id /\ m \in Publication
                    /\ delivered' = Append(delivered, m)
                    /\ Handed' = Handed \cup {m} /\ Kept' = Kept \ {m}
  <2>1. i \in 1 .. Len(stored)
    BY <1>2, ListMembers
  <2>2. stored' = RemoveAt(stored, i) /\ delivered' = Append(delivered, stored[i])
    BY <1>2 DEF Release, Deliver
  <2>3. stored[i] \in Kept /\ stored[i] \in Publication
    BY <2>1, ListMembers
  <2>4. /\ stored' \in Seq(Publication)
        /\ \A j \in 1 .. Len(stored') :
              /\ Before(j, i) \in 1 .. Len(stored) /\ Before(j, i) # i
              /\ stored'[j] = stored[Before(j, i)]
    BY <1>1, <2>1, <2>2, Erased
  <2>5. \A j, k \in 1 .. Len(stored') : j # k => Before(j, i) # Before(k, i)
    BY <1>1, <2>1, <2>2, Erased
  <2>6. StoredApart'
    <3>1. ASSUME NEW j \in 1 .. Len(stored'), NEW k \in 1 .. Len(stored'), j # k
          PROVE  stored'[j].id # stored'[k].id
      <4>1. stored[Before(j, i)].id # stored[Before(k, i)].id
        BY <2>4, <2>5, <3>1 DEF StoredApart
      <4>2. QED BY <2>4, <4>1
    <3>2. QED BY <3>1 DEF StoredApart
  <2>7. Handed' = Handed \cup {stored[i]}
    <3>1. ToSet(Append(delivered, stored[i])) = ToSet(delivered) \cup {stored[i]}
      BY <1>1, <2>3, ToSetProperties
    <3>2. QED BY <3>1, <2>2 DEF Handed
  <2>8. Kept' = Kept \ {stored[i]}
    <3>1. \A m : m \in Kept' <=> \E j \in 1 .. Len(stored') : m = stored'[j]
      BY <2>4, ToSetMembers DEF Kept
    <3>2. \A m \in Kept' : m \in Kept /\ m # stored[i]
      <4>1. ASSUME NEW j \in 1 .. Len(stored')
            PROVE  stored'[j] \in Kept /\ stored'[j] # stored[i]
        <5>1. Before(j, i) \in 1 .. Len(stored) /\ Before(j, i) # i
          BY <2>4
        <5>2. stored[Before(j, i)] \in Kept /\ stored[Before(j, i)].id # stored[i].id
          BY <5>1, <2>1, ListMembers DEF StoredApart
        <5>3. QED BY <5>2, <2>4
      <4>2. QED BY <4>1, <3>1
    <3>3. ASSUME NEW k \in 1 .. Len(stored), k # i
          PROVE  stored[k] \in Kept'
      <4>1. /\ Len(stored) \in Nat /\ Len(stored') = Len(stored) - 1
            /\ \A j \in 1 .. Len(stored) - 1 :
                 stored'[j] = IF j < i THEN stored[j] ELSE stored[j + 1]
        BY <1>1, <2>1, <2>2, RemoveAtProperties, LenProperties
      <4>2. CASE k < i
        <5>1. k \in 1 .. Len(stored) - 1
          BY <4>1, <4>2, <2>1
        <5>2. stored'[k] = stored[k]
          BY <4>1, <4>2, <5>1
        <5>3. QED BY <5>1, <5>2, <4>1, <3>1
      <4>3. CASE ~(k < i)
        <5>1. /\ k - 1 \in 1 .. Len(stored) - 1 /\ ~(k - 1 < i) /\ (k - 1) + 1 = k
          BY <4>1, <4>3, <3>3, <2>1
        <5>2. stored'[k - 1] = stored[k]
          BY <4>1, <5>1
        <5>3. QED BY <5>1, <5>2, <4>1, <3>1
      <4>4. QED BY <4>2, <4>3
    <3>4. \A m \in Kept : m # stored[i] => m \in Kept'
      BY <3>3, ListMembers
    <3>5. QED BY <3>2, <3>4
  <2>9. QED BY <1>2, <2>2, <2>3, <2>6, <2>7, <2>8
<1>3. CASE ~Known(id) /\ DeliverNothing /\ UNCHANGED stored
  <2>1. \A k \in Kept : k.id # id
    BY <1>3, ListMembers DEF Known
  <2>2. QED BY <1>3, <2>1 DEF DeliverNothing, Kept, Handed, StoredApart
<1>4. QED BY <1>2, <1>3 DEF HandlePubrel
-----------------------------------------------------------------------------
(* What was published *)

\* What the server makes of an answer.
LEMMA AnswerEffects ==
    ASSUME SessionTypeOK, ServerReceive
    PROVE  LET answer == Head(toServer) IN
           /\ answer \in AnswerPacket /\ answer = Answer(answer.type, answer.id)
           /\ Kept' = Kept /\ Handed' = Handed /\ published' = published
           /\ \A e \in exchanges' : \E f \in exchanges : f.message = e.message
           /\ \A e \in exchanges' :
                \/ /\ e \in exchanges /\ e \notin Concerned(answer)
                \/ /\ answer.type = "pubrec" /\ e.stage = "released"
                   /\ \E f \in Concerned(answer) : f.message = e.message
           /\ \A e \in exchanges :
                \/ e \in exchanges'
                \/ e \in Concerned(answer) /\ answer.type \in {"puback", "pubcomp"}
                \/ /\ e \in Concerned(answer) /\ answer.type = "pubrec"
                   /\ [e EXCEPT !.stage = "released"] \in exchanges'
           /\ \/ answer.type = "pubrec" /\ toClient' = Append(toClient, Pubrel(answer.id))
              \/ answer.type # "pubrec" /\ toClient' = toClient
<1> DEFINE answer == Head(toServer)
<1>1. answer \in AnswerPacket
  BY HeadTailProperties DEF SessionTypeOK, ServerReceive
<1>2. answer = Answer(answer.type, answer.id) /\ answer.type \in {"puback", "pubrec", "pubcomp"}
  BY <1>1 DEF AnswerPacket, Answer, Answers
<1>3. Kept' = Kept /\ Handed' = Handed /\ published' = published
  BY DEF ServerReceive, vars, history, Kept, Handed
<1>4. /\ Concerned(answer) \subseteq exchanges
      /\ \A e \in Concerned(answer) : /\ [e EXCEPT !.stage = "released"].message = e.message
                                      /\ [e EXCEPT !.stage = "released"].stage = "released"
  BY <1>1, ConcernedProperties
<1>5. \/ /\ answer.type = "pubrec"
         /\ exchanges' = (exchanges \ Concerned(answer))
                             \cup {[e EXCEPT !.stage = "released"] : e \in Concerned(answer)}
         /\ toClient' = Append(toClient, Pubrel(answer.id))
      \/ /\ answer.type # "pubrec"
         /\ exchanges' = exchanges \ Concerned(answer)
         /\ toClient' = toClient
  BY DEF ServerReceive
<1> HIDE DEF answer
<1>6. CASE /\ answer.type = "pubrec"
           /\ exchanges' = (exchanges \ Concerned(answer))
                             \cup {[e EXCEPT !.stage = "released"] : e \in Concerned(answer)}
           /\ toClient' = Append(toClient, Pubrel(answer.id))
  <2>1. ASSUME NEW e \in exchanges'
        PROVE  \/ /\ e \in exchanges /\ e \notin Concerned(answer)
               \/ /\ e.stage = "released"
                  /\ \E f \in Concerned(answer) : f.message = e.message
    BY <1>4, <1>6
  <2>2. \A e \in exchanges : \/ e \in exchanges'
                             \/ /\ e \in Concerned(answer)
                                /\ [e EXCEPT !.stage = "released"] \in exchanges'
    BY <1>4, <1>6
  <2>3. \A e \in exchanges' : \E f \in exchanges : f.message = e.message
    BY <2>1, <1>4
  <2>4. QED BY <1>1, <1>2, <1>3, <1>6, <2>1, <2>2, <2>3 DEF answer
<1>7. CASE /\ answer.type # "pubrec"
           /\ exchanges' = exchanges \ Concerned(answer)
           /\ toClient' = toClient
  <2>1. answer.type \in {"puback", "pubcomp"}
    BY <1>2, <1>7
  <2>2. QED BY <1>1, <1>2, <1>3, <1>7, <2>1 DEF answer
<1>8. QED BY <1>5, <1>6, <1>7

\* A message published stays so, the next one is published with its number.
LEMMA PublishedGrows ==
    ASSUME SessionTypeOK, NEW m \in Publication, m.op = Len(published) + 1,
           published' = Append(published, m)
    PROVE  /\ \A n : IsPublished(n) => IsPublished(n)'
           /\ IsPublished(m)'
           /\ \A n : IsPublished(n) => n.op # m.op
           /\ Len(published) \in Nat /\ Len(published') = Len(published) + 1
           /\ \A i \in 1 .. Len(published) : published'[i] = published[i]
           /\ published'[Len(published) + 1] = m
<1>1. /\ Len(published) \in Nat /\ Len(published') = Len(published) + 1
      /\ \A i \in 1 .. Len(published) : published'[i] = published[i]
      /\ published'[Len(published) + 1] = m
  BY AppendProperties, LenProperties DEF SessionTypeOK
<1>2. \A i \in 1 .. Len(published) : i \in 1 .. Len(published') /\ i # Len(published) + 1
  BY <1>1
<1>3. Len(published) + 1 \in 1 .. Len(published')
  BY <1>1
<1>4. QED BY <1>1, <1>2, <1>3 DEF IsPublished

\* The steps in which nothing is published.
LEMMA MessagesKept ==
    ASSUME MessageInv, published' = published,
           \A m \in Publication : SentAt(m)' # {} => SentAt(m) # {} \/ \E e \in exchanges : e.message = m,
           \A m \in (Kept \cup Handed)' : \/ m \in Kept \cup Handed
                                          \/ m \in Publication /\ SentAt(m) # {},
           \A e \in exchanges' : \E f \in exchanges : f.message = e.message
    PROVE  MessageInv'
<1>1. \A m : IsPublished(m)' <=> IsPublished(m)
  BY DEF IsPublished
<1>2. \A n \in 1 .. Len(published') : published'[n].op = n
  BY DEF MessageInv
<1>3. \A m \in Publication : SentAt(m)' # {} => IsPublished(m)'
  BY <1>1 DEF MessageInv
<1>4. \A m \in (Kept \cup Handed)' : IsPublished(m)'
  BY <1>1 DEF MessageInv
<1>5. \A e \in exchanges' : IsPublished(e.message)'
  BY <1>1 DEF MessageInv
<1>6. QED BY <1>2, <1>3, <1>4, <1>5 DEF MessageInv

LEMMA MessageStep ==
    ASSUME SessionTypeOK, MessageInv, ClientInv, [SessionNext]_sessionVars
    PROVE  MessageInv'
<1>1. ASSUME NEW m \in Publication, m.op = Len(published) + 1, ServerPublish(m)
      PROVE  MessageInv'
  <2>1. /\ toClient' = Append(toClient, MessagePacket(m)) /\ published' = Append(published, m)
        /\ exchanges' \subseteq exchanges \cup {[message |-> m, stage |-> "sent"]}
        /\ Kept' = Kept /\ Handed' = Handed
    BY <1>1 DEF ServerPublish, Publish, MessagePacket, vars, history, Kept, Handed
  <2>2. MessagePacket(m) \in ServerPacket
    BY DEF ServerPacket, MessagePacket
  <2>3. \A n \in Publication : SentAt(n)' # {} => n = m \/ SentAt(n) # {}
    BY <2>1, <2>2, ClientGets, PacketsDiffer
  <2>4. /\ \A n : IsPublished(n) => IsPublished(n)'
        /\ IsPublished(m)'
        /\ Len(published) \in Nat /\ Len(published') = Len(published) + 1
        /\ \A i \in 1 .. Len(published) : published'[i] = published[i]
        /\ published'[Len(published) + 1] = m
    BY <1>1, <2>1, PublishedGrows
  <2>5. \A n \in Publication : SentAt(n)' # {} => IsPublished(n)'
    BY <2>3, <2>4 DEF MessageInv
  <2>6. \A n \in (Kept \cup Handed)' : IsPublished(n)'
    BY <2>1, <2>4 DEF MessageInv
  <2>7. \A e \in exchanges' : IsPublished(e.message)'
    BY <2>1, <2>4 DEF MessageInv
  <2>8. \A n \in 1 .. Len(published') : published'[n].op = n
    <3>1. \A n \in 1 .. Len(published') : n \in 1 .. Len(published) \/ n = Len(published) + 1
      BY <2>4
    <3>2. QED BY <3>1, <2>4, <1>1 DEF MessageInv
  <2>9. QED BY <2>5, <2>6, <2>7, <2>8 DEF MessageInv
<1>2. ASSUME NEW e \in exchanges, ServerResend(e) PROVE MessageInv'
  <2>1. /\ e.message \in Publication /\ e.message.id \in Ids
    BY DEF SessionTypeOK, Exchange, Publication
  <2>2. \/ toClient' = Append(toClient, MessagePacket(e.message))
        \/ toClient' = Append(toClient, Pubrel(e.message.id))
    BY <1>2 DEF ServerResend, Publish, MessagePacket
  <2>3. /\ \A m \in Publication : MessagePacket(m) \in ServerPacket
        /\ \A id \in Ids : Pubrel(id) \in ServerPacket
    BY DEF ServerPacket, MessagePacket, Pubrel
  <2>4. \A m \in Publication : SentAt(m)' # {} => SentAt(m) # {} \/ m = e.message
    BY <2>1, <2>2, <2>3, ClientGets, PacketsDiffer
  <2>5. published' = published /\ exchanges' = exchanges /\ Kept' = Kept /\ Handed' = Handed
    BY <1>2 DEF ServerResend, vars, history, Kept, Handed
  <2>6. QED BY <2>4, <2>5, MessagesKept
<1>3. ASSUME ServerReceive PROVE MessageInv'
  <2>1. /\ Kept' = Kept /\ Handed' = Handed /\ published' = published
        /\ \A e \in exchanges' : \E f \in exchanges : f.message = e.message
        /\ \/ toClient' = toClient
           \/ \E id \in Ids : toClient' = Append(toClient, Pubrel(id))
    <3>1. \A a \in AnswerPacket : a.id \in Ids
      BY DEF AnswerPacket
    <3>2. QED BY <1>3, <3>1, AnswerEffects
  <2>2. \A id \in Ids : Pubrel(id) \in ServerPacket
    BY DEF ServerPacket, Pubrel
  <2>3. \A m \in Publication : SentAt(m)' # {} => SentAt(m) # {}
    <3>1. CASE toClient' = toClient
      BY <3>1 DEF SentAt
    <3>2. ASSUME NEW id \in Ids, toClient' = Append(toClient, Pubrel(id))
          PROVE  \A m \in Publication : SentAt(m)' # {} => SentAt(m) # {}
      BY <2>2, <3>2, ClientGets, PacketsDiffer
    <3>3. QED BY <2>1, <3>1, <3>2
  <2>4. QED BY <2>1, <2>3, MessagesKept
<1>4. ASSUME ClientConnects PROVE MessageInv'
  <2>1. toClient' = Append(toClient, [type |-> "connack"]) /\ [type |-> "connack"] \in ServerPacket
    BY <1>4 DEF ClientConnects, ServerPacket
  <2>2. \A m : SentAt(m)' = SentAt(m)
    <3> DEFINE p == [type |-> "connack"]
    <3>1. p \in ServerPacket /\ toClient' = Append(toClient, p)
      BY <2>1
    <3>2. \A m : p # MessagePacket(m)
      BY PacketsDiffer
    <3> HIDE DEF p
    <3>3. \A m : SentAt(m)' = SentAt(m) \cup (IF p = MessagePacket(m) THEN {Len(toClient) + 1} ELSE {})
      BY <3>1, ClientGets
    <3>4. QED BY <3>2, <3>3
  <2>3. published' = published /\ exchanges' = exchanges /\ Kept' = Kept /\ Handed' = Handed
    BY <1>4 DEF ClientConnects, StartHandshake, server, history, Kept, Handed
  <2>4. QED BY <2>2, <2>3, MessagesKept
<1>5. ASSUME Received
      PROVE  /\ published' = published /\ exchanges' = exchanges
             /\ \A m : SentAt(m)' # {} => SentAt(m) # {}
  BY <1>5, ClientTakes DEF Received, server
<1>6. ASSUME Received, ReceiveConnack PROVE MessageInv'
  <2>1. Kept' = Kept /\ Handed' = Handed
    BY <1>6 DEF ReceiveConnack, HandleConnack, history, Kept, Handed
  <2>2. QED BY <1>5, <1>6, <2>1, MessagesKept
<1>7. ASSUME NEW m \in Publication, Received, ReceivePublish(m) PROVE MessageInv'
  <2>1. SentAt(m) # {}
    BY <1>7, ClientTakes DEF ReceivePublish
  <2>2. \A k \in Kept' \cup Handed' : k \in Kept \cup Handed \/ k = m
    <3>1. HandlePublish(m)
      BY <1>7 DEF ReceivePublish
    <3>2. QED BY <3>1, PublishEffects
  <2>3. QED BY <1>5, <1>7, <2>1, <2>2, MessagesKept
<1>8. ASSUME NEW id \in Ids, Received, ReceivePubrel(id) PROVE MessageInv'
  <2>1. \A k \in Kept' \cup Handed' : k \in Kept \cup Handed
    <3>1. HandlePubrel(id)
      BY <1>8 DEF ReceivePubrel
    <3>2. QED BY <3>1, PubrelEffects DEF ClientInv
  <2>2. QED BY <1>5, <1>8, <2>1, MessagesKept
<1>9. ASSUME ClientWrites PROVE MessageInv'
  <2>1. /\ published' = published /\ exchanges' = exchanges /\ Kept' = Kept /\ Handed' = Handed
        /\ toClient' = toClient
    BY <1>9 DEF ClientWrites, WriteCompletes, server, history, Kept, Handed
  <2>2. \A m : SentAt(m)' = SentAt(m)
    BY <2>1 DEF SentAt
  <2>3. QED BY <2>1, <2>2, MessagesKept
<1>10. ASSUME Disconnect PROVE MessageInv'
  <2>1. published' = published /\ exchanges' = exchanges /\ Kept' = Kept /\ Handed' = Handed
    BY <1>10 DEF Disconnect, Close, server, history, Kept, Handed
  <2>2. \A m : SentAt(m)' # {} => SentAt(m) # {}
    BY <1>10, ClientLoses DEF Disconnect
  <2>3. QED BY <2>1, <2>2, MessagesKept
<1>11. ASSUME UNCHANGED <<toClient, published, exchanges, stored, delivered>> PROVE MessageInv'
  <2>1. /\ published' = published /\ exchanges' = exchanges /\ Kept' = Kept /\ Handed' = Handed
        /\ \A m : SentAt(m)' = SentAt(m)
    BY <1>11 DEF Kept, Handed, SentAt
  <2>2. QED BY <2>1, MessagesKept
<1>12. CASE \/ \E m \in ReceiveMaxima : Handshaker(m) /\ UNCHANGED <<toClient, toServer, server>>
            \/ \E r \in Receivers : Subscribe(r) /\ UNCHANGED <<toClient, toServer, server>>
            \/ UNCHANGED sessionVars
  BY <1>11, <1>12 DEF Handshaker, Subscribe, server, sessionVars, vars, history
<1>13. QED BY <1>1, <1>2, <1>3, <1>4, <1>6, <1>7, <1>8, <1>9, <1>10, <1>12, SessionSteps
-----------------------------------------------------------------------------
(* The exchanges *)

\* The stream to the client brings no packet, and d packets less at its head.
Fewer(d) ==
    /\ \A m : \A i \in SentAt(m)' : i \in Nat /\ i + d \in SentAt(m)
    /\ \A id : \A i \in RelAt(id)' : i \in Nat /\ i + d \in RelAt(id)

\* What is before all of a message remains so.
LEMMA StaysBefore ==
    ASSUME NEW d \in Nat, Fewer(d), NEW m, NEW id, NEW i \in RelAt(id)'
    PROVE  /\ i + d \in RelAt(id)
           /\ \A j \in SentAt(m)' : j + d \in SentAt(m) /\ (i < j <=> i + d < j + d)
           /\ (\A k \in SentAt(m) : i + d < k) => \A k \in SentAt(m)' : i < k
           /\ SentAt(m) = {} => SentAt(m)' = {}
<1>1. i \in Nat /\ i + d \in RelAt(id)
  BY DEF Fewer
<1>2. \A j \in SentAt(m)' : j \in Nat /\ j + d \in SentAt(m)
  BY DEF Fewer
<1>3. QED BY <1>1, <1>2

LEMMA FewerSent ==
    ASSUME NEW d \in Nat, Fewer(d), NEW m
    PROVE  SentAt(m) = {} => SentAt(m)' = {}
BY DEF Fewer

\* The order of PUBREL and PUBLISH is kept when no more is kept.
LEMMA ReleasedFirstKept ==
    ASSUME ReleasedFirst, NEW d \in Nat, Fewer(d), Kept' \subseteq Kept
    PROVE  ReleasedFirst'
<1> SUFFICES ASSUME NEW m \in Publication, NEW i \in RelAt(m.id)', NEW j \in SentAt(m)',
                    m.qos = 2, i < j
             PROVE  m \notin Kept' /\ \A k \in SentAt(m)' : i < k
  BY DEF ReleasedFirst
<1>1. i + d \in RelAt(m.id) /\ j + d \in SentAt(m) /\ i + d < j + d
  BY StaysBefore
<1>2. m \notin Kept /\ \A k \in SentAt(m) : i + d < k
  BY <1>1 DEF ReleasedFirst
<1>3. QED BY <1>2, StaysBefore

\* The client has handled nothing.
LEMMA ClientInvKept ==
    ASSUME ClientInv, NEW d \in Nat, Fewer(d), stored' = stored, delivered' = delivered
    PROVE  ClientInv'
<1>1. Kept' = Kept /\ Handed' = Handed
  BY DEF Kept, Handed
<1>2. KeptUnhanded' /\ StoredApart' /\ Qos2Once'
  BY <1>1 DEF ClientInv, KeptUnhanded, StoredApart, Qos2Once
<1>3. HandedGone'
  BY <1>1, FewerSent DEF ClientInv, HandedGone
<1>4. ReleasedFirst'
  BY <1>1, ReleasedFirstKept DEF ClientInv
<1>5. QED BY <1>2, <1>3, <1>4 DEF ClientInv

\* The server has done nothing, and the client nothing to a message that it is
\* to send again.
LEMMA ExchangeInvKept ==
    ASSUME ExchangeInv, NEW d \in Nat, Fewer(d),
           exchanges' = exchanges, published' = published, Handed \subseteq Handed',
           \A e \in exchanges : e.message.qos = 2 /\ e.stage = "sent" =>
                /\ e.message \in Handed' => e.message \in Handed
                /\ e.message \in Kept' =>
                     e.message \in Kept \/ \A i \in RelAt(e.message.id)' : FALSE
    PROVE  ExchangeInv'
<1>1. OneExchange' /\ StagesKept'
  BY DEF ExchangeInv, OneExchange, StagesKept
<1>2. SentKnown'
  BY FewerSent DEF ExchangeInv, SentKnown
<1>3. SentOnce'
  <2> SUFFICES ASSUME NEW m \in Publication, m.qos = 1, NEW i \in SentAt(m)', NEW j \in SentAt(m)'
               PROVE  i = j
    BY DEF SentOnce
  <2>1. i \in Nat /\ j \in Nat /\ i + d \in SentAt(m) /\ j + d \in SentAt(m)
    BY DEF Fewer
  <2>2. i + d = j + d
    BY <2>1 DEF ExchangeInv, SentOnce
  <2>3. QED BY <2>1, <2>2
<1>4. SentAfresh'
  <2> SUFFICES ASSUME NEW e \in exchanges, e.message.qos = 2, e.stage = "sent"
               PROVE  /\ e.message \notin Handed'
                      /\ \A i \in RelAt(e.message.id)' :
                            e.message \notin Kept' /\ \A k \in SentAt(e.message)' : i < k
    BY DEF SentAfresh
  <2>1. e.message \notin Handed'
    BY DEF ExchangeInv, SentAfresh
  <2>2. ASSUME NEW i \in RelAt(e.message.id)'
        PROVE  e.message \notin Kept' /\ \A k \in SentAt(e.message)' : i < k
    <3>1. i + d \in RelAt(e.message.id)
      BY StaysBefore
    <3>2. e.message \notin Kept /\ \A k \in SentAt(e.message) : i + d < k
      BY <3>1 DEF ExchangeInv, SentAfresh
    <3>3. \A k \in SentAt(e.message)' : i < k
      BY <3>2, StaysBefore
    <3>4. QED BY <3>2, <3>3
  <2>3. QED BY <2>1, <2>2
<1>5. Remembered'
  BY DEF ExchangeInv, Remembered
<1>6. QED BY <1>1, <1>2, <1>3, <1>4, <1>5 DEF ExchangeInv

\* A message handed to the waiters, and no other of its number before.
LEMMA HandedOnce ==
    ASSUME SessionTypeOK, Qos2Once, NEW m \in Publication, delivered' = Append(delivered, m),
           \A n \in Handed : n.qos = 2 \/ m.qos = 2 => n.op # m.op
    PROVE  Qos2Once'
<1>1. /\ DOMAIN delivered' = 1 .. Len(delivered') /\ DOMAIN delivered = 1 .. Len(delivered)
      /\ Len(delivered) \in Nat /\ Len(delivered') = Len(delivered) + 1
      /\ \A i \in 1 .. Len(delivered) : delivered'[i] = delivered[i] /\ delivered[i] \in Handed
      /\ delivered'[Len(delivered) + 1] = m
  <2>1. delivered \in Seq(Publication)
    BY ListMembers
  <2>2. delivered' \in Seq(Publication)
    BY <2>1, AppendProperties
  <2>3. DOMAIN delivered' = 1 .. Len(delivered')
    BY <2>2, LenProperties
  <2>4. QED BY <2>1, <2>3, AppendProperties, LenProperties, ListMembers
<1>2. \A i \in 1 .. Len(delivered') : i \in 1 .. Len(delivered) \/ i = Len(delivered) + 1
  BY <1>1
<1>3. SUFFICES ASSUME NEW i \in 1 .. Len(delivered'), NEW j \in 1 .. Len(delivered'), i # j,
                      delivered'[i].qos = 2
               PROVE  delivered'[i].op # delivered'[j].op
  BY <1>1 DEF Qos2Once
<1>4. CASE i \in 1 .. Len(delivered) /\ j \in 1 .. Len(delivered)
  BY <1>1, <1>3, <1>4 DEF Qos2Once
<1>5. CASE i \in 1 .. Len(delivered) /\ j = Len(delivered) + 1
  BY <1>1, <1>3, <1>5
<1>6. CASE i = Len(delivered) + 1 /\ j \in 1 .. Len(delivered)
  BY <1>1, <1>3, <1>6
<1>7. QED BY <1>2, <1>3, <1>4, <1>5, <1>6

\* A message for the first time.
LEMMA PublishedInv ==
    ASSUME SessionTypeOK, MessageInv, ClientInv, ExchangeInv,
           NEW m \in Publication, m.op = Len(published) + 1, ServerPublish(m)
    PROVE  ClientInv' /\ ExchangeInv'
<1> DEFINE last == Len(toClient) + 1
           new == [message |-> m, stage |-> "sent"]
<1>1. /\ toClient' = Append(toClient, MessagePacket(m)) /\ published' = Append(published, m)
      /\ stored' = stored /\ delivered' = delivered /\ Kept' = Kept /\ Handed' = Handed
      /\ \/ /\ m.qos > 0 /\ exchanges' = exchanges \cup {new}
            /\ \A f \in exchanges : f.message.id # m.id
         \/ m.qos = 0 /\ exchanges' = exchanges
  BY DEF ServerPublish, Publish, MessagePacket, vars, history, Kept, Handed
<1>2. /\ \A n : n # m => SentAt(n)' = SentAt(n)
      /\ SentAt(m)' = SentAt(m) \cup {last}
      /\ \A id : RelAt(id)' = RelAt(id)
  BY <1>1, ClientGetsPublish
<1>3. SentAt(m) = {} /\ m \notin Kept /\ m \notin Handed
  <2>1. Len(published) \in Nat
    BY LenProperties DEF SessionTypeOK
  <2>2. ~IsPublished(m)
    BY <2>1 DEF IsPublished
  <2>3. QED BY <2>2 DEF MessageInv
<1>4. SentAt(m)' = {last}
  BY <1>2, <1>3
<1>5. last \in Nat /\ \A id : \A i \in RelAt(id) : i \in Nat /\ i < last
  BY ClientQueue
<1> HIDE DEF last
<1>6. KeptUnhanded' /\ StoredApart' /\ Qos2Once'
  BY <1>1 DEF ClientInv, KeptUnhanded, StoredApart, Qos2Once
<1>7. HandedGone'
  BY <1>1, <1>2, <1>3 DEF ClientInv, HandedGone
<1>8. ReleasedFirst'
  <2> SUFFICES ASSUME NEW n \in Publication, NEW i \in RelAt(n.id)', NEW j \in SentAt(n)',
                      n.qos = 2, i < j
               PROVE  n \notin Kept' /\ \A k \in SentAt(n)' : i < k
    BY DEF ReleasedFirst
  <2>1. CASE n # m
    BY <1>1, <1>2, <2>1 DEF ClientInv, ReleasedFirst
  <2>2. CASE n = m
    BY <1>1, <1>2, <1>3, <1>4, <1>5, <2>2
  <2>3. QED BY <2>1, <2>2
<1>9. OneExchange' /\ StagesKept'
  BY <1>1 DEF ExchangeInv, OneExchange, StagesKept
<1>10. SentKnown'
  <2> SUFFICES ASSUME NEW n \in Publication, SentAt(n)' # {}, n.qos > 0
               PROVE  \E e \in exchanges' : e.message = n
    BY DEF SentKnown
  <2>1. CASE n = m
    <3>1. new \in exchanges' /\ new.message = n
      BY <1>1, <2>1
    <3>2. QED BY <3>1
  <2>2. CASE n # m
    BY <1>1, <1>2, <2>2 DEF ExchangeInv, SentKnown
  <2>3. QED BY <2>1, <2>2
<1>11. SentOnce'
  BY <1>2, <1>4 DEF ExchangeInv, SentOnce
<1>12. SentAfresh'
  <2> SUFFICES ASSUME NEW e \in exchanges', e.message.qos = 2, e.stage = "sent"
               PROVE  /\ e.message \notin Handed'
                      /\ \A i \in RelAt(e.message.id)' :
                            e.message \notin Kept' /\ \A k \in SentAt(e.message)' : i < k
    BY DEF SentAfresh
  <2>1. CASE e.message = m
    BY <1>1, <1>2, <1>3, <1>4, <1>5, <2>1
  <2>2. CASE e.message # m
    <3>1. e \in exchanges
      BY <1>1, <2>2
    <3>2. QED BY <1>1, <1>2, <2>2, <3>1 DEF ExchangeInv, SentAfresh
  <2>3. QED BY <2>1, <2>2
<1>13. Remembered'
  <2>1. /\ Len(published) \in Nat /\ Len(published') = Len(published) + 1
        /\ \A i \in 1 .. Len(published) : published'[i] = published[i]
        /\ published'[Len(published) + 1] = m
    BY <1>1, PublishedGrows
  <2> SUFFICES ASSUME NEW i \in 1 .. Len(published'), published'[i].qos > 0
               PROVE  (\E e \in exchanges' : e.message.op = i) \/ \E n \in Handed' : n.op = i
    BY DEF Remembered
  <2>2. CASE i \in 1 .. Len(published)
    BY <1>1, <2>1, <2>2 DEF ExchangeInv, Remembered
  <2>3. CASE i = Len(published) + 1
    <3>1. new \in exchanges' /\ new.message.op = i
      BY <1>1, <2>1, <2>3
    <3>2. QED BY <3>1
  <2>4. QED BY <2>1, <2>2, <2>3
<1>14. QED BY <1>6, <1>7, <1>8, <1>9, <1>10, <1>11, <1>12, <1>13 DEF ClientInv, ExchangeInv

\* A PUBLISH or a PUBREL once more.
LEMMA ResentInv ==
    ASSUME SessionTypeOK, ClientInv, ExchangeInv, NEW e \in exchanges, ServerResend(e)
    PROVE  ClientInv' /\ ExchangeInv'
<1> DEFINE last == Len(toClient) + 1
           m == e.message
<1>1. /\ stored' = stored /\ delivered' = delivered /\ Kept' = Kept /\ Handed' = Handed
      /\ published' = published /\ exchanges' = exchanges /\ m.qos = 2
      /\ \/ e.stage = "sent" /\ toClient' = Append(toClient, MessagePacket(m))
         \/ e.stage # "sent" /\ toClient' = Append(toClient, Pubrel(m.id))
  BY DEF ServerResend, Publish, MessagePacket, vars, history, Kept, Handed
<1>2. m \in Publication /\ m.id \in Ids
  BY DEF SessionTypeOK, Exchange, Publication
<1> HIDE DEF m
<1>3. \/ /\ e.stage = "sent"
         /\ \A n : n # m => SentAt(n)' = SentAt(n)
         /\ SentAt(m)' = SentAt(m) \cup {last}
         /\ \A id : RelAt(id)' = RelAt(id)
      \/ /\ e.stage # "sent"
         /\ \A n : SentAt(n)' = SentAt(n)
         /\ \A id : id # m.id => RelAt(id)' = RelAt(id)
         /\ RelAt(m.id)' = RelAt(m.id) \cup {last}
  BY <1>1, <1>2, ClientGetsPublish, ClientGetsPubrel
<1>5. /\ last \in Nat
      /\ \A id : \A i \in RelAt(id) : i \in Nat /\ i < last
      /\ \A n : \A i \in SentAt(n) : i \in Nat /\ i < last
  BY ClientQueue
<1> HIDE DEF last
<1>6. KeptUnhanded' /\ StoredApart' /\ Qos2Once' /\ OneExchange' /\ StagesKept' /\ Remembered'
  BY <1>1 DEF ClientInv, KeptUnhanded, StoredApart, Qos2Once, ExchangeInv, OneExchange,
              StagesKept, Remembered
<1>7. \A n \in Publication : SentAt(n)' # {} => SentAt(n) # {} \/ n = m
  BY <1>3
<1>8. SentKnown'
  <2>1. \E f \in exchanges : f.message = m
    BY DEF m
  <2>2. QED BY <1>1, <1>7, <2>1 DEF ExchangeInv, SentKnown
<1>9. \A n \in Publication : n.qos = 1 => SentAt(n)' = SentAt(n)
  <2> SUFFICES ASSUME NEW n \in Publication, n.qos = 1
               PROVE  SentAt(n)' = SentAt(n)
    OBVIOUS
  <2>1. n # m
    BY <1>1
  <2>2. QED BY <1>3, <2>1
<1>10. SentOnce'
  BY <1>9 DEF ExchangeInv, SentOnce
<1>11. CASE e.stage = "sent"
  <2>1. /\ m \notin Handed
        /\ \A i \in RelAt(m.id) : m \notin Kept /\ \A k \in SentAt(m) : i < k
    BY <1>1, <1>11 DEF ExchangeInv, SentAfresh, m
  <2>2. /\ \A n : n # m => SentAt(n)' = SentAt(n)
        /\ SentAt(m)' = SentAt(m) \cup {last}
        /\ \A id : RelAt(id)' = RelAt(id)
    BY <1>3, <1>11
  <2>3. \A i \in RelAt(m.id)' : m \notin Kept' /\ \A k \in SentAt(m)' : i < k
    BY <1>1, <1>5, <2>1, <2>2
  <2>4. HandedGone'
    BY <1>1, <2>1, <2>2 DEF ClientInv, HandedGone
  <2>5. ReleasedFirst'
    <3>1. \A n \in Publication : n # m =>
            \A i \in RelAt(n.id)', j \in SentAt(n)' :
                n.qos = 2 /\ i < j => n \notin Kept' /\ \A k \in SentAt(n)' : i < k
      BY <1>1, <2>2 DEF ClientInv, ReleasedFirst
    <3>2. QED BY <2>3, <3>1 DEF ReleasedFirst
  <2>6. SentAfresh'
    <3>1. ASSUME NEW f \in exchanges, f.message.qos = 2, f.stage = "sent", f.message # m
          PROVE  /\ f.message \notin Handed'
                 /\ \A i \in RelAt(f.message.id)' :
                        f.message \notin Kept' /\ \A k \in SentAt(f.message)' : i < k
      BY <1>1, <2>2, <3>1 DEF ExchangeInv, SentAfresh
    <3>2. QED BY <1>1, <2>1, <2>3, <3>1 DEF SentAfresh
  <2>7. QED BY <1>6, <1>8, <1>10, <2>4, <2>5, <2>6 DEF ClientInv, ExchangeInv
<1>12. CASE e.stage # "sent"
  <2>1. /\ \A n : SentAt(n)' = SentAt(n)
        /\ \A id : id # m.id => RelAt(id)' = RelAt(id)
        /\ RelAt(m.id)' = RelAt(m.id) \cup {last}
    BY <1>3, <1>12
  <2>2. HandedGone'
    BY <1>1, <2>1 DEF ClientInv, HandedGone
  <2>3. ReleasedFirst'
    <3> SUFFICES ASSUME NEW n \in Publication, NEW i \in RelAt(n.id)', NEW j \in SentAt(n)',
                        n.qos = 2, i < j
                 PROVE  n \notin Kept' /\ \A k \in SentAt(n)' : i < k
      BY DEF ReleasedFirst
    <3>1. j \in SentAt(n) /\ j < last /\ j \in Nat
      BY <1>5, <2>1
    <3>2. i \in RelAt(n.id)
      BY <1>5, <2>1, <3>1
    <3>3. QED BY <1>1, <2>1, <3>1, <3>2 DEF ClientInv, ReleasedFirst
  <2>4. SentAfresh'
    <3> SUFFICES ASSUME NEW f \in exchanges, f.message.qos = 2, f.stage = "sent"
                 PROVE  /\ f.message \notin Handed'
                        /\ \A i \in RelAt(f.message.id)' :
                              f.message \notin Kept' /\ \A k \in SentAt(f.message)' : i < k
      BY <1>1 DEF SentAfresh
    <3>1. f.message.id # m.id
      BY <1>12 DEF ExchangeInv, OneExchange, m
    <3>2. RelAt(f.message.id)' = RelAt(f.message.id)
      BY <2>1, <3>1
    <3>3. QED BY <1>1, <2>1, <3>2 DEF ExchangeInv, SentAfresh
  <2>5. QED BY <1>6, <1>8, <1>10, <2>2, <2>3, <2>4 DEF ClientInv, ExchangeInv
<1>13. QED BY <1>11, <1>12
-----------------------------------------------------------------------------
(* The answers under way *)

LEMMA RepliesType ==
    ASSUME SessionTypeOK
    PROVE  /\ toServer \in Seq(OutPacket) /\ outgoing \in Seq(OutPacket)
           /\ Replies \in Seq(OutPacket) /\ Len(Replies) \in Nat
           /\ \A type, id : \A i \in ReplyAt(type, id) : i \in Nat /\ i >= 1 /\ i <= Len(Replies)
<1>1. AnswerPacket \subseteq OutPacket
  BY DEF OutPacket
<1>2. toServer \in Seq(OutPacket)
  BY <1>1, SeqMonotonic DEF SessionTypeOK
<1>3. outgoing \in Seq(OutPacket)
  BY DEF SessionTypeOK, TypeOK, OutPacket, AnswerPacket
<1>4. Replies \in Seq(OutPacket)
  BY <1>2, <1>3, ConcatProperties DEF Replies
<1>5. Len(Replies) \in Nat
  BY <1>4, LenProperties
<1>6. \A type, id : ReplyAt(type, id) \subseteq 1 .. Len(Replies)
  BY <1>4, PositionsProperties DEF ReplyAt
<1>7. QED BY <1>2, <1>3, <1>4, <1>5, <1>6

\* The client writes an answer, a complaint before it or not.
LEMMA Replied ==
    ASSUME SessionTypeOK, open, toServer' = toServer,
           NEW type \in Answers, NEW id \in Ids,
           \/ Write(<<Answer(type, id)>>)
           \/ Write(Append(Complaint, Answer(type, id)))
    PROVE  /\ \A t \in Answers : \A jd : t # type \/ jd # id => ReplyAt(t, jd)' = ReplyAt(t, jd)
           /\ ReplyAt(type, id)' = ReplyAt(type, id) \cup {Len(Replies')}
           /\ Len(Replies') \in Nat /\ Len(Replies) < Len(Replies')
<1> DEFINE a == Answer(type, id)
           s == Append(Replies, DisconnectPacket)
<1>1. a \in OutPacket /\ DisconnectPacket \in OutPacket
  BY DEF Answer, OutPacket, AnswerPacket
<1>2. \A t \in Answers : \A jd : t # type \/ jd # id => Answer(t, jd) # a
  BY DEF Answer
<1>3. \A t \in Answers : \A jd : Answer(t, jd) # DisconnectPacket
  BY DEF Answer, DisconnectPacket, Answers
<1> HIDE DEF a
<1>4. /\ toServer \in Seq(OutPacket) /\ outgoing \in Seq(OutPacket)
      /\ Replies \in Seq(OutPacket) /\ Len(Replies) \in Nat
  BY RepliesType
<1>5. s \in Seq(OutPacket) /\ Len(s) = Len(Replies) + 1
  BY <1>1, <1>4, AppendProperties
<1>6. ASSUME NEW x, x # DisconnectPacket
      PROVE  Positions(s, x) = Positions(Replies, x)
  <2>1. \A y \in OutPacket : Positions(Append(Replies, y), x)
                             = Positions(Replies, x) \cup (IF x = y THEN {Len(Replies) + 1} ELSE {})
    BY <1>4, PositionsProperties
  <2>2. Positions(s, x) = Positions(Replies, x) \cup {}
    BY <1>1, <1>6, <2>1
  <2>3. QED BY <2>2
<1>7. Replies' = Append(Replies, a) \/ Replies' = Append(s, a)
  <2>1. ASSUME NEW c \in Seq(OutPacket), outgoing' = outgoing \o (c \o <<a>>)
        PROVE  Replies' = Append(Replies \o c, a)
    <3>1. <<a>> \in Seq(OutPacket)
      BY <1>1
    <3>2. Replies \o c \in Seq(OutPacket) /\ outgoing \o c \in Seq(OutPacket)
      BY <1>4, <2>1, ConcatProperties
    <3>3. outgoing \o (c \o <<a>>) = (outgoing \o c) \o <<a>>
      BY <1>4, <2>1, <3>1, ConcatAssociative
    <3>4. (toServer \o (outgoing \o c)) \o <<a>> = toServer \o ((outgoing \o c) \o <<a>>)
      BY <1>4, <3>1, <3>2, ConcatAssociative
    <3>5. (toServer \o outgoing) \o c = toServer \o (outgoing \o c)
      <4>1. toServer \in Seq(OutPacket) /\ outgoing \in Seq(OutPacket) /\ c \in Seq(OutPacket)
        BY <1>4, <2>1
      <4>2. QED BY ONLY <4>1, ConcatAssociative
    <3>6. Append(Replies \o c, a) = (Replies \o c) \o <<a>>
      BY <1>1, <3>2, AppendIsConcat
    <3>7. Replies' = toServer \o (outgoing \o (c \o <<a>>))
      BY <2>1 DEF Replies
    <3>8. QED BY <3>3, <3>4, <3>5, <3>6, <3>7 DEF Replies
  <2>2. /\ <<>> \in Seq(OutPacket) /\ <<DisconnectPacket>> \in Seq(OutPacket)
        /\ <<a>> \in Seq(OutPacket)
    BY <1>1
  <2>3. <<>> \o <<a>> = <<a>> /\ Replies \o <<>> = Replies
    BY <1>4, <2>2, ConcatEmptySeq
  <2>4. /\ Append(<<>>, a) = <<>> \o <<a>>
        /\ Append(<<DisconnectPacket>>, a) = <<DisconnectPacket>> \o <<a>>
        /\ Replies \o <<DisconnectPacket>> = s
    BY <1>1, <1>4, <2>2, AppendIsConcat
  <2>5. \/ outgoing' = outgoing \o (<<>> \o <<a>>)
        \/ outgoing' = outgoing \o (<<DisconnectPacket>> \o <<a>>)
    <3>1. Complaint = <<>> \/ Complaint = <<DisconnectPacket>>
      BY DEF Complaint
    <3>2. outgoing' = outgoing \o <<a>> \/ outgoing' = outgoing \o Append(Complaint, a)
      BY DEF Write, a
    <3>3. QED BY <2>3, <2>4, <3>1, <3>2
  <2>6. CASE outgoing' = outgoing \o (<<>> \o <<a>>)
    BY <2>1, <2>2, <2>3, <2>6
  <2>7. CASE outgoing' = outgoing \o (<<DisconnectPacket>> \o <<a>>)
    <3>1. Replies' = Append(Replies \o <<DisconnectPacket>>, a)
      BY <2>1, <2>2, <2>7
    <3>2. QED BY <2>4, <3>1
  <2>8. QED BY <2>5, <2>6, <2>7
<1> HIDE DEF s
<1>8. ASSUME NEW q \in Seq(OutPacket), q = Replies \/ q = s, Replies' = Append(q, a)
      PROVE  /\ \A t \in Answers : \A jd : t # type \/ jd # id => ReplyAt(t, jd)' = ReplyAt(t, jd)
             /\ ReplyAt(type, id)' = ReplyAt(type, id) \cup {Len(Replies')}
             /\ Len(Replies') \in Nat /\ Len(Replies) < Len(Replies')
  <2>1. /\ Len(Replies') = Len(q) + 1 /\ Len(q) \in Nat /\ Len(q) >= Len(Replies)
    BY <1>1, <1>4, <1>5, <1>8, AppendProperties, LenProperties
  <2>2. \A x : Positions(Append(q, a), x)
               = Positions(q, x) \cup (IF x = a THEN {Len(q) + 1} ELSE {})
    BY <1>1, <1>8, PositionsProperties
  <2>3. \A t \in Answers : \A jd : Positions(q, Answer(t, jd)) = ReplyAt(t, jd)
    BY <1>3, <1>6, <1>8 DEF ReplyAt
  <2>4. \A t, jd : ReplyAt(t, jd)' = Positions(Append(q, a), Answer(t, jd))
    BY <1>8 DEF ReplyAt, Answer
  <2>5. \A t \in Answers : \A jd : t # type \/ jd # id => ReplyAt(t, jd)' = ReplyAt(t, jd)
    <3> SUFFICES ASSUME NEW t \in Answers, NEW jd, t # type \/ jd # id
                 PROVE  ReplyAt(t, jd)' = ReplyAt(t, jd)
      OBVIOUS
    <3>1. Positions(Append(q, a), Answer(t, jd)) = Positions(q, Answer(t, jd))
      BY <1>2, <2>2
    <3>2. QED BY <2>3, <2>4, <3>1
  <2>6. ReplyAt(type, id)' = ReplyAt(type, id) \cup {Len(Replies')}
    <3>1. Positions(Append(q, a), a) = Positions(q, a) \cup {Len(q) + 1}
      BY <2>2
    <3>2. QED BY <2>1, <2>3, <2>4, <3>1 DEF a
  <2>7. QED BY <2>1, <2>5, <2>6
<1>9. QED BY <1>4, <1>5, <1>7, <1>8

\* A completed write passes the packet on.
LEMMA WrittenIsReply ==
    ASSUME SessionTypeOK, ClientWrites, open'
    PROVE  Replies' = Replies
<1>1. /\ outgoing \in Seq(OutPacket) /\ outgoing # <<>> /\ toServer \in Seq(OutPacket)
      /\ outgoing' = Tail(outgoing) /\ toServer' = Append(toServer, Head(outgoing))
  BY RepliesType DEF ClientWrites, WriteCompletes
<1>2. /\ Head(outgoing) \in OutPacket /\ Tail(outgoing) \in Seq(OutPacket)
      /\ Len(outgoing) \in Nat \ {0} /\ Head(outgoing) = outgoing[1]
      /\ Len(Tail(outgoing)) = Len(outgoing) - 1
      /\ \A i \in 1 .. Len(Tail(outgoing)) : Tail(outgoing)[i] = outgoing[i + 1]
  BY <1>1, HeadTailProperties, EmptySeq
<1> DEFINE h == Head(outgoing)
           r == Tail(outgoing)
<1> HIDE DEF h, r
<1>3. /\ <<h>> \in Seq(OutPacket) /\ Len(<<h>>) = 1 /\ <<h>>[1] = h
  BY <1>2 DEF h
<1>4. <<h>> \o r = outgoing
  <2>1. r \in Seq(OutPacket)
    BY <1>2 DEF r
  <2>2. /\ <<h>> \o r \in Seq(OutPacket)
        /\ Len(<<h>> \o r) = 1 + Len(r)
        /\ \A i \in 1 .. 1 + Len(r) : (<<h>> \o r)[i] = IF i <= 1 THEN <<h>>[i] ELSE r[i - 1]
    BY <1>3, <2>1, ConcatProperties
  <2>3. Len(r) \in Nat /\ Len(outgoing) = Len(r) + 1 /\ h = outgoing[1]
        /\ \A i \in 1 .. Len(r) : r[i] = outgoing[i + 1]
    BY <1>2, <2>1, LenProperties DEF h, r
  <2>4. \A i \in 1 .. 1 + Len(r) : (<<h>> \o r)[i] = outgoing[i]
    <3> SUFFICES ASSUME NEW i \in 1 .. 1 + Len(r) PROVE (<<h>> \o r)[i] = outgoing[i]
      OBVIOUS
    <3>1. CASE i = 1
      BY <1>3, <2>2, <2>3, <3>1
    <3>2. CASE i # 1
      <4>1. i - 1 \in 1 .. Len(r) /\ (i - 1) + 1 = i /\ ~(i <= 1)
        BY <2>3, <3>2
      <4>2. QED BY <2>2, <2>3, <4>1
    <3>3. QED BY <3>1, <3>2
  <2>5. QED BY <1>1, <2>2, <2>3, <2>4, SeqEqual
<1>5. Append(toServer, h) = toServer \o <<h>>
  BY <1>1, <1>2, AppendIsConcat DEF h
<1>6. (toServer \o <<h>>) \o r = toServer \o (<<h>> \o r)
  BY <1>1, <1>2, <1>3, ConcatAssociative DEF r
<1>7. Replies' = Append(toServer, h) \o r
  BY <1>1 DEF Replies, h, r
<1>8. QED BY <1>4, <1>5, <1>6, <1>7 DEF Replies

\* The server takes the oldest reply.
LEMMA ReplyTaken ==
    ASSUME SessionTypeOK, ServerReceive
    PROVE  /\ 1 \in ReplyAt(Head(toServer).type, Head(toServer).id)
           /\ \A type, id : \A i \in ReplyAt(type, id)' :
                i \in Nat /\ i >= 1 /\ i + 1 \in ReplyAt(type, id)
<1>1. /\ toServer \in Seq(OutPacket) /\ outgoing \in Seq(OutPacket) /\ Replies \in Seq(OutPacket)
      /\ toServer # <<>> /\ toServer' = Tail(toServer) /\ outgoing' = outgoing
  BY RepliesType DEF ServerReceive, vars
<1>2. /\ Len(toServer) \in Nat /\ Len(toServer) > 0 /\ Len(outgoing) \in Nat
      /\ Head(toServer) = toServer[1]
  BY <1>1, EmptySeq, LenProperties
<1>3. /\ Len(Replies) = Len(toServer) + Len(outgoing)
      /\ \A i \in 1 .. Len(Replies) :
            Replies[i] = IF i <= Len(toServer) THEN toServer[i] ELSE outgoing[i - Len(toServer)]
  BY <1>1, ConcatProperties DEF Replies
<1>4. Replies[1] = Head(toServer)
  BY <1>2, <1>3
<1> DEFINE t == Tail(toServer)
           s == t \o outgoing
<1>5. /\ t \in Seq(OutPacket) /\ Len(t) = Len(toServer) - 1
      /\ \A i \in 1 .. Len(t) : t[i] = toServer[i + 1]
  BY <1>1, HeadTailProperties
<1> HIDE DEF t
<1>6. /\ s \in Seq(OutPacket)
      /\ Len(s) = Len(t) + Len(outgoing)
      /\ \A i \in 1 .. Len(s) : s[i] = IF i <= Len(t) THEN t[i] ELSE outgoing[i - Len(t)]
  <2>1. /\ s \in Seq(OutPacket) /\ Len(s) = Len(t) + Len(outgoing)
        /\ \A i \in 1 .. Len(t) + Len(outgoing) :
              s[i] = IF i <= Len(t) THEN t[i] ELSE outgoing[i - Len(t)]
    BY <1>1, <1>5, ConcatProperties
  <2> HIDE DEF s
  <2>2. QED BY <2>1
<1>7. Replies' = s
  BY <1>1 DEF Replies, t
<1> HIDE DEF s
<1>8. Len(s) = Len(Replies) - 1 /\ \A i \in 1 .. Len(s) : i + 1 \in 1 .. Len(Replies)
  BY <1>2, <1>3, <1>5, <1>6
<1>9. \A i \in 1 .. Len(s) : s[i] = Replies[i + 1]
  <2> SUFFICES ASSUME NEW i \in 1 .. Len(s) PROVE s[i] = Replies[i + 1]
    OBVIOUS
  <2>1. i + 1 \in 1 .. Len(Replies)
    BY <1>8
  <2>2. CASE i <= Len(t)
    <3>1. i \in 1 .. Len(t) /\ i + 1 <= Len(toServer)
      BY <1>2, <1>5, <1>6, <2>2
    <3>2. QED BY <1>3, <1>5, <1>6, <2>1, <2>2, <3>1
  <2>3. CASE ~(i <= Len(t))
    <3>1. ~(i + 1 <= Len(toServer)) /\ (i + 1) - Len(toServer) = i - Len(t)
      BY <1>2, <1>5, <1>6, <2>3
    <3>2. QED BY <1>3, <1>6, <2>1, <2>3, <3>1
  <2>4. QED BY <2>2, <2>3
<1>10. ASSUME NEW x, NEW i \in Positions(s, x)
       PROVE  i \in Nat /\ i >= 1 /\ i + 1 \in Positions(Replies, x)
  <2>1. i \in 1 .. Len(s) /\ s[i] = x
    BY <1>10 DEF Positions
  <2>2. QED BY <1>8, <1>9, <2>1 DEF Positions
<1>11. ASSUME NEW type, NEW id, NEW i \in ReplyAt(type, id)'
       PROVE  i \in Nat /\ i >= 1 /\ i + 1 \in ReplyAt(type, id)
  <2>1. i \in Positions(s, Answer(type, id))
    BY <1>7, <1>11 DEF ReplyAt, Answer
  <2>2. QED BY <1>10, <2>1 DEF ReplyAt
<1>12. 1 \in ReplyAt(Head(toServer).type, Head(toServer).id)
  <2>1. Answer(Head(toServer).type, Head(toServer).id) = Head(toServer)
    BY AnswerEffects
  <2>2. 1 \in 1 .. Len(Replies)
    BY <1>2, <1>3
  <2>3. QED BY <1>4, <2>1, <2>2 DEF ReplyAt, Positions
<1>13. QED BY <1>11, <1>12

\* The server takes an answer.  What it forgets has been handed on, and no
\* packet about it is under way.
LEMMA AnswerTakenInv ==
    ASSUME SessionTypeOK, SessionTypeOK', ClientInv, ExchangeInv, ReplyInv, ServerReceive
    PROVE  ClientInv' /\ ExchangeInv' /\ ReplyInv'
<1> DEFINE a == Head(toServer)
           last == Len(toClient) + 1
           Forgotten(e) == e \in Concerned(a) /\ a.type \in {"puback", "pubcomp"}
<1>1. /\ a \in AnswerPacket /\ Kept' = Kept /\ Handed' = Handed /\ published' = published
      /\ \A e \in exchanges' :
            \/ /\ e \in exchanges /\ e \notin Concerned(a)
            \/ /\ a.type = "pubrec" /\ e.stage = "released"
               /\ \E f \in Concerned(a) : f.message = e.message
      /\ \A e \in exchanges :
            \/ e \in exchanges'
            \/ Forgotten(e)
            \/ /\ e \in Concerned(a) /\ a.type = "pubrec"
               /\ [e EXCEPT !.stage = "released"] \in exchanges'
      /\ \/ a.type = "pubrec" /\ toClient' = Append(toClient, Pubrel(a.id))
         \/ a.type # "pubrec" /\ toClient' = toClient
  BY AnswerEffects
<1>2. a.id \in Ids /\ a.type \in {"puback", "pubrec", "pubcomp"}
  BY <1>1 DEF AnswerPacket, Answers
<1>3. stored' = stored /\ delivered' = delivered
  BY DEF ServerReceive, vars, history
<1>4. /\ 1 \in ReplyAt(a.type, a.id)
      /\ \A type, id : \A i \in ReplyAt(type, id)' :
            i \in Nat /\ i >= 1 /\ i + 1 \in ReplyAt(type, id)
  BY ReplyTaken
<1>5. \A e : e \in Concerned(a) <=>
        /\ e \in exchanges /\ e.message.id = a.id
        /\ e.message.qos = IF a.type = "puback" THEN 1 ELSE 2
        /\ a.type = "pubcomp" => e.stage = "released"
  BY DEF Concerned
<1>6. \A e \in exchanges : Forgotten(e) \/ \E f \in exchanges' : f.message = e.message
  <2>1. \A e \in Concerned(a) : [e EXCEPT !.stage = "released"].message = e.message
    BY <1>1, ConcernedProperties
  <2>2. QED BY <1>1, <2>1
<1>7. /\ \A e \in exchanges : e \in Exchange /\ e.message \in Publication /\ e.message.id \in Ids
      /\ \A e \in exchanges' : e \in Exchange /\ e.message \in Publication /\ e.message.id \in Ids
  BY DEF SessionTypeOK, Exchange, Publication
<1>8. /\ \A m : SentAt(m)' = SentAt(m)
      /\ \A id : a.type # "pubrec" \/ id # a.id => RelAt(id)' = RelAt(id)
      /\ \A id : id = a.id /\ a.type = "pubrec" => RelAt(id)' = RelAt(id) \cup {last}
  <2>1. CASE a.type = "pubrec" /\ toClient' = Append(toClient, Pubrel(a.id))
    <3> SUFFICES ASSUME NEW id \in Ids, a.id = id
                 PROVE  /\ \A m : SentAt(m)' = SentAt(m)
                        /\ \A jd : jd # id => RelAt(jd)' = RelAt(jd)
                        /\ RelAt(id)' = RelAt(id) \cup {last}
      BY <1>2, <2>1
    <3>1. toClient' = Append(toClient, Pubrel(id))
      BY <2>1
    <3>2. QED BY <3>1, ClientGetsPubrel
  <2>2. CASE a.type # "pubrec" /\ toClient' = toClient
    BY <2>2 DEF SentAt, RelAt
  <2>3. QED BY <1>1, <2>1, <2>2
<1>9. /\ last \in Nat
      /\ \A m : \A i \in SentAt(m) : i \in Nat /\ i < last
  BY ClientQueue
<1> HIDE DEF a, last
<1>10. \A e \in exchanges : Forgotten(e) =>
        e.message \in Handed /\ SentAt(e.message) = {} /\ e.message \notin Kept
  <2> SUFFICES ASSUME NEW e \in exchanges, Forgotten(e)
               PROVE  e.message \in Handed /\ SentAt(e.message) = {} /\ e.message \notin Kept
    OBVIOUS
  <2>1. CASE a.type = "puback"
    <3>1. e.message.id = a.id /\ e.message.qos = 1 /\ ReplyAt("puback", a.id) # {}
      BY <1>4, <1>5, <2>1
    <3>2. e.message \in Handed
      BY <1>2, <3>1 DEF ReplyInv, AckKnown, ExchangeInv, OneExchange
    <3>3. SentAt(e.message) = {}
      BY <3>1 DEF ReplyInv, AckAfter
    <3>4. QED BY <3>2, <3>3 DEF ClientInv, KeptUnhanded
  <2>2. CASE a.type = "pubcomp"
    <3>1. /\ e.message.id = a.id /\ e.message.qos = 2 /\ e.stage = "released"
          /\ ReplyAt("pubcomp", a.id) # {}
      BY <1>4, <1>5, <2>2
    <3>2. e.message \in Handed
      BY <3>1 DEF ReplyInv, CompOfReleased
    <3>3. QED BY <3>1, <3>2 DEF ClientInv, KeptUnhanded, HandedGone
  <2>3. QED BY <2>1, <2>2
<1>11. a.type = "pubrec" => \A e \in exchanges : e.message.id = a.id => e \in Concerned(a)
  <2> SUFFICES ASSUME a.type = "pubrec", NEW e \in exchanges, e.message.id = a.id
               PROVE  e.message.qos = 2
    BY <1>5
  <2>1. \E f \in exchanges : f.message.id = a.id /\ f.message.qos = 2
    BY <1>2, <1>4 DEF ReplyInv, RecKnown
  <2>2. QED BY <2>1 DEF ExchangeInv, OneExchange
<1>12. \A e \in exchanges' : e.stage = "sent" \/ e.message.qos = 1 =>
        e \in exchanges /\ (a.type = "pubrec" => e.message.id # a.id)
  <2> SUFFICES ASSUME NEW e \in exchanges', e.stage = "sent" \/ e.message.qos = 1
               PROVE  e \in exchanges /\ e \notin Concerned(a)
    BY <1>11
  <2>1. ASSUME a.type = "pubrec", e.stage = "released", NEW f \in Concerned(a), f.message = e.message
        PROVE  FALSE
    BY <1>5, <2>1
  <2>2. QED BY <1>1, <2>1
<1>13. ClientInv'
  <2>1. KeptUnhanded' /\ StoredApart' /\ Qos2Once' /\ HandedGone'
    BY <1>1, <1>3, <1>8 DEF ClientInv, KeptUnhanded, StoredApart, Qos2Once, HandedGone
  <2>2. ReleasedFirst'
    <3> SUFFICES ASSUME NEW m \in Publication, NEW i \in RelAt(m.id)', NEW j \in SentAt(m)',
                        m.qos = 2, i < j
                 PROVE  m \notin Kept' /\ \A k \in SentAt(m)' : i < k
      BY DEF ReleasedFirst
    <3>1. j \in SentAt(m) /\ j \in Nat /\ j < last
      BY <1>8, <1>9
    <3>2. i \in RelAt(m.id)
      BY <1>8, <1>9, <3>1
    <3>3. QED BY <1>1, <1>8, <3>1, <3>2 DEF ClientInv, ReleasedFirst
  <2>3. QED BY <2>1, <2>2 DEF ClientInv
<1>14. ExchangeInv'
  <2>1. OneExchange'
    <3> SUFFICES ASSUME NEW e \in exchanges', NEW f \in exchanges', e.message.id = f.message.id
                 PROVE  e = f
      BY DEF OneExchange
    <3>1. CASE e \in exchanges /\ f \in exchanges
      BY <3>1 DEF ExchangeInv, OneExchange
    <3>2. ASSUME e.stage = "released", f.stage = "released",
                 NEW k \in Concerned(a), k.message = e.message,
                 NEW l \in Concerned(a), l.message = f.message
          PROVE  e = f
      <4>1. k = l
        BY <1>5, <3>2 DEF ExchangeInv, OneExchange
      <4>2. e.message = f.message /\ e \in Exchange /\ f \in Exchange
        BY <1>7, <3>2, <4>1
      <4>3. QED BY <3>2, <4>2 DEF Exchange
    <3>3. ASSUME NEW k \in exchanges, NEW l \in exchanges, k \in Concerned(a), l \notin Concerned(a),
                 k.message.id = l.message.id
          PROVE  FALSE
      BY <3>3 DEF ExchangeInv, OneExchange
    <3>4. Concerned(a) \subseteq exchanges
      BY <1>5
    <3>5. QED BY <1>1, <3>1, <3>2, <3>3, <3>4
  <2>2. StagesKept'
    <3> SUFFICES ASSUME NEW e \in exchanges'
                 PROVE  e.message.qos > 0 /\ (e.message.qos = 1 => e.stage = "sent")
      BY DEF StagesKept
    <3>1. CASE e \in exchanges
      BY <3>1 DEF ExchangeInv, StagesKept
    <3>2. ASSUME a.type = "pubrec", NEW f \in Concerned(a), f.message = e.message
          PROVE  e.message.qos = 2
      BY <1>5, <3>2
    <3>3. QED BY <1>1, <3>1, <3>2
  <2>3. SentKnown'
    <3> SUFFICES ASSUME NEW m \in Publication, SentAt(m)' # {}, m.qos > 0
                 PROVE  \E e \in exchanges' : e.message = m
      BY DEF SentKnown
    <3>1. PICK e \in exchanges : e.message = m
      BY <1>8 DEF ExchangeInv, SentKnown
    <3>2. QED BY <1>6, <1>8, <1>10, <3>1
  <2>4. SentOnce'
    BY <1>8 DEF ExchangeInv, SentOnce
  <2>5. SentAfresh'
    <3> SUFFICES ASSUME NEW e \in exchanges', e.message.qos = 2, e.stage = "sent"
                 PROVE  /\ e.message \notin Handed'
                        /\ \A i \in RelAt(e.message.id)' :
                              e.message \notin Kept' /\ \A k \in SentAt(e.message)' : i < k
      BY DEF SentAfresh
    <3>1. e \in exchanges /\ RelAt(e.message.id)' = RelAt(e.message.id)
      BY <1>8, <1>12
    <3>2. QED BY <1>1, <1>8, <3>1 DEF ExchangeInv, SentAfresh
  <2>6. Remembered'
    <3> SUFFICES ASSUME NEW i \in 1 .. Len(published), published[i].qos > 0
                 PROVE  (\E e \in exchanges' : e.message.op = i) \/ \E m \in Handed : m.op = i
      BY <1>1 DEF Remembered
    <3>1. CASE \E m \in Handed : m.op = i
      BY <3>1
    <3>2. ASSUME NEW e \in exchanges, e.message.op = i
          PROVE  (\E f \in exchanges' : f.message.op = i) \/ \E m \in Handed : m.op = i
      <4>1. CASE Forgotten(e)
        BY <1>10, <3>2, <4>1
      <4>2. CASE \E f \in exchanges' : f.message = e.message
        BY <3>2, <4>2
      <4>3. QED BY <1>6, <4>1, <4>2
    <3>3. QED BY <3>1, <3>2 DEF ExchangeInv, Remembered
  <2>7. QED BY <2>1, <2>2, <2>3, <2>4, <2>5, <2>6 DEF ExchangeInv
<1>15. ReplyInv'
  <2>1. KeptKnown'
    <3> SUFFICES ASSUME NEW m \in Kept PROVE \E e \in exchanges' : e.message = m
      BY <1>1 DEF KeptKnown
    <3>1. PICK e \in exchanges : e.message = m
      BY DEF ReplyInv, KeptKnown
    <3>2. QED BY <1>6, <1>10, <3>1
  <2>2. RecKnown'
    <3> SUFFICES ASSUME NEW id \in Ids, NEW i \in ReplyAt("pubrec", id)'
                 PROVE  \E e \in exchanges' : e.message.id = id /\ e.message.qos = 2
      BY DEF RecKnown
    <3>1. i \in Nat /\ i >= 1 /\ i + 1 \in ReplyAt("pubrec", id)
      BY <1>4
    <3>2. PICK e \in exchanges : e.message.id = id /\ e.message.qos = 2
      BY <3>1 DEF ReplyInv, RecKnown
    <3>3. ASSUME Forgotten(e) PROVE FALSE
      <4>1. a.type = "pubcomp" /\ a.id = id /\ e.stage = "released"
        BY <1>5, <3>2, <3>3
      <4>2. i + 1 < 1
        BY <1>4, <3>1, <3>2, <4>1 DEF ReplyInv, CompOfReleased
      <4>3. QED BY <3>1, <4>2
    <3>4. QED BY <1>6, <3>2, <3>3
  <2>3. AckKnown'
    <3> SUFFICES ASSUME NEW id \in Ids, NEW i \in ReplyAt("puback", id)'
                 PROVE  \E e \in exchanges' :
                            e.message.id = id /\ e.message.qos = 1 /\ e.message \in Handed
      BY <1>1 DEF AckKnown
    <3>1. i \in Nat /\ i >= 1 /\ i + 1 \in ReplyAt("puback", id)
      BY <1>4
    <3>2. PICK e \in exchanges : e.message.id = id /\ e.message.qos = 1 /\ e.message \in Handed
      BY <3>1 DEF ReplyInv, AckKnown
    <3>3. ASSUME Forgotten(e) PROVE FALSE
      <4>1. a.type = "puback" /\ a.id = id
        BY <1>5, <3>2, <3>3
      <4>2. i + 1 = 1
        BY <1>4, <3>1, <4>1 DEF ReplyInv, AckOnce
      <4>3. QED BY <3>1, <4>2
    <3>4. QED BY <1>6, <3>2, <3>3
  <2>4. AckOnce'
    <3> SUFFICES ASSUME NEW id \in Ids, NEW i \in ReplyAt("puback", id)', NEW j \in ReplyAt("puback", id)'
                 PROVE  i = j
      BY DEF AckOnce
    <3>1. i \in Nat /\ j \in Nat /\ i + 1 \in ReplyAt("puback", id) /\ j + 1 \in ReplyAt("puback", id)
      BY <1>4
    <3>2. i + 1 = j + 1
      BY <3>1 DEF ReplyInv, AckOnce
    <3>3. QED BY <3>1, <3>2
  <2>5. AckAfter'
    BY <1>4, <1>8, <1>12 DEF ReplyInv, AckAfter
  <2>6. RecOfSent'
    <3> SUFFICES ASSUME NEW e \in exchanges, e.message.qos = 2, e.stage = "sent"
                 PROVE  /\ ReplyAt("pubrec", e.message.id)' # {} => e.message \in Kept
                        /\ \A i \in ReplyAt("pubrec", e.message.id)',
                              j \in ReplyAt("pubcomp", e.message.id)' : j < i
      BY <1>1, <1>12 DEF RecOfSent
    <3>1. ReplyAt("pubrec", e.message.id)' # {} => e.message \in Kept
      BY <1>4 DEF ReplyInv, RecOfSent
    <3>2. ASSUME NEW i \in ReplyAt("pubrec", e.message.id)', NEW j \in ReplyAt("pubcomp", e.message.id)'
          PROVE  j < i
      <4>1. /\ i \in Nat /\ i + 1 \in ReplyAt("pubrec", e.message.id)
            /\ j \in Nat /\ j + 1 \in ReplyAt("pubcomp", e.message.id)
        BY <1>4
      <4>2. j + 1 < i + 1
        BY <4>1 DEF ReplyInv, RecOfSent
      <4>3. QED BY <4>1, <4>2
    <3>3. QED BY <3>1, <3>2
  <2>7. CompOfReleased'
    <3> DEFINE Goal(e) ==
            /\ e.message \in Kept \cup Handed
            /\ ReplyAt("pubcomp", e.message.id)' # {} => e.message \in Handed
            /\ \A i \in ReplyAt("pubrec", e.message.id)', j \in ReplyAt("pubcomp", e.message.id)' : i < j
    <3>1. ASSUME NEW e \in exchanges, e.message.qos = 2, e.stage = "released"
          PROVE  Goal(e)
      <4>1. e.message \in Kept \cup Handed
        BY <3>1 DEF ReplyInv, CompOfReleased
      <4>2. ReplyAt("pubcomp", e.message.id)' # {} => e.message \in Handed
        BY <1>4, <3>1 DEF ReplyInv, CompOfReleased
      <4>3. ASSUME NEW i \in ReplyAt("pubrec", e.message.id)', NEW j \in ReplyAt("pubcomp", e.message.id)'
            PROVE  i < j
        <5>1. /\ i \in Nat /\ i + 1 \in ReplyAt("pubrec", e.message.id)
              /\ j \in Nat /\ j + 1 \in ReplyAt("pubcomp", e.message.id)
          BY <1>4
        <5>2. i + 1 < j + 1
          BY <3>1, <5>1 DEF ReplyInv, CompOfReleased
        <5>3. QED BY <5>1, <5>2
      <4>4. QED BY <4>1, <4>2, <4>3
    <3>2. ASSUME NEW f \in exchanges, f.message.qos = 2, f.stage = "sent",
                 a.type = "pubrec", f.message.id = a.id
          PROVE  Goal(f)
      <4>1. f.message \in Kept
        BY <1>4, <3>2 DEF ReplyInv, RecOfSent
      <4>2. ASSUME NEW j \in ReplyAt("pubcomp", f.message.id)' PROVE FALSE
        <5>1. j \in Nat /\ j >= 1 /\ j + 1 \in ReplyAt("pubcomp", f.message.id)
          BY <1>4
        <5>2. j + 1 < 1
          BY <1>4, <3>2, <5>1 DEF ReplyInv, RecOfSent
        <5>3. QED BY <5>1, <5>2
      <4>3. QED BY <3>2, <4>1, <4>2
    <3>3. ASSUME a.type = "pubrec", NEW f \in Concerned(a)
          PROVE  Goal(f)
      <4>1. f \in exchanges /\ f.message.id = a.id /\ f.message.qos = 2
        BY <1>5, <3>3
      <4>2. f.stage = "sent" \/ f.stage = "released"
        BY <1>7, <4>1 DEF Exchange
      <4>3. QED BY <3>1, <3>2, <3>3, <4>1, <4>2
    <3>4. ASSUME NEW e \in exchanges', NEW f, f.message = e.message, Goal(f) PROVE Goal(e)
      BY <3>4
    <3> HIDE DEF Goal
    <3>5. \A e \in exchanges' : e.message.qos = 2 /\ e.stage = "released" => Goal(e)
      BY <1>1, <3>1, <3>3, <3>4
    <3>6. QED BY <1>1, <3>5 DEF CompOfReleased, Goal
  <2>8. QED BY <2>1, <2>2, <2>3, <2>4, <2>5, <2>6, <2>7 DEF ReplyInv
<1>16. QED BY <1>13, <1>14, <1>15
-----------------------------------------------------------------------------
(* The client takes a packet *)

LEMMA TakesOne ==
    ASSUME SessionTypeOK, Received
    PROVE  /\ Fewer(1) /\ exchanges' = exchanges /\ published' = published
           /\ toServer' = toServer
BY ClientTakes DEF Fewer, Received, server

\* Two messages published under one number are one.
LEMMA OneOfANumber ==
    ASSUME NEW m, NEW n, IsPublished(m), IsPublished(n), m.op = n.op
    PROVE  m = n
BY DEF IsPublished

\* handle_packet(publish), with a message that the server may send again.
LEMMA PublishTakenInv ==
    ASSUME SessionTypeOK, MessageInv, ClientInv, ExchangeInv,
           NEW m \in Publication, Received, ReceivePublish(m)
    PROVE  ClientInv' /\ ExchangeInv'
<1>1. /\ Fewer(1) /\ exchanges' = exchanges /\ published' = published
      /\ 1 \in SentAt(m) /\ HandlePublish(m)
  BY TakesOne, ClientTakes DEF ReceivePublish
<1>2. m.qos = 2 => m \notin Handed
  BY <1>1 DEF ClientInv, HandedGone
<1>3. CASE /\ m.qos \in {0, 1}
           /\ stored' = stored /\ Kept' = Kept
           /\ delivered' = Append(delivered, m) /\ Handed' = Handed \cup {m}
  <2>1. KeptUnhanded' /\ StoredApart'
    BY <1>3 DEF ClientInv, KeptUnhanded, StoredApart
  <2>2. HandedGone'
    BY <1>1, <1>3, FewerSent DEF ClientInv, HandedGone
  <2>3. ReleasedFirst'
    BY <1>1, <1>3, ReleasedFirstKept DEF ClientInv
  <2>4. Qos2Once'
    <3>1. \A n \in Handed : n.qos = 2 \/ m.qos = 2 => n.op # m.op
      <4> SUFFICES ASSUME NEW n \in Handed, n.qos = 2 PROVE n.op # m.op
        BY <1>3
      <4>1. IsPublished(m) /\ IsPublished(n)
        BY <1>1 DEF MessageInv
      <4>2. QED BY <1>3, <4>1, OneOfANumber
    <3>2. QED BY <1>3, <3>1, HandedOnce DEF ClientInv
  <2>5. ExchangeInv'
    BY <1>1, <1>3, ExchangeInvKept
  <2>6. QED BY <2>1, <2>2, <2>3, <2>4, <2>5 DEF ClientInv
<1>4. CASE stored' = stored /\ delivered' = delivered
  <2>1. Kept' = Kept /\ Handed' = Handed
    BY <1>4 DEF Kept, Handed
  <2>2. QED BY <1>1, <1>4, <2>1, ClientInvKept, ExchangeInvKept
<1>5. CASE /\ m.qos = 2 /\ delivered' = delivered /\ Handed' = Handed
           /\ stored' = Append(stored, m) /\ Kept' = Kept \cup {m}
           /\ \A k \in Kept : k.id # m.id
  <2>1. KeptUnhanded' /\ Qos2Once'
    BY <1>2, <1>5 DEF ClientInv, KeptUnhanded, Qos2Once
  <2>2. StoredApart'
    <3>1. /\ Len(stored) \in Nat /\ Len(stored') = Len(stored) + 1
          /\ \A i \in 1 .. Len(stored) : stored'[i] = stored[i] /\ stored[i] \in Kept
          /\ stored'[Len(stored) + 1] = m
      BY <1>5, ListMembers, AppendProperties, LenProperties
    <3>2. \A i \in 1 .. Len(stored') : i \in 1 .. Len(stored) \/ i = Len(stored) + 1
      BY <3>1
    <3> SUFFICES ASSUME NEW i \in 1 .. Len(stored'), NEW j \in 1 .. Len(stored'), i # j
                 PROVE  stored'[i].id # stored'[j].id
      BY DEF StoredApart
    <3>3. CASE i \in 1 .. Len(stored) /\ j \in 1 .. Len(stored)
      BY <3>1, <3>3 DEF ClientInv, StoredApart
    <3>4. CASE i \in 1 .. Len(stored) /\ j = Len(stored) + 1
      BY <1>5, <3>1, <3>4
    <3>5. CASE i = Len(stored) + 1 /\ j \in 1 .. Len(stored)
      BY <1>5, <3>1, <3>5
    <3>6. QED BY <3>2, <3>3, <3>4, <3>5
  <2>3. HandedGone'
    BY <1>1, <1>5, FewerSent DEF ClientInv, HandedGone
  <2>4. ReleasedFirst'
    <3> SUFFICES ASSUME NEW n \in Publication, NEW i \in RelAt(n.id)', NEW j \in SentAt(n)',
                        n.qos = 2, i < j
                 PROVE  n \notin Kept' /\ \A k \in SentAt(n)' : i < k
      BY DEF ReleasedFirst
    <3>1. i + 1 \in RelAt(n.id) /\ j + 1 \in SentAt(n) /\ i + 1 < j + 1 /\ i \in Nat
      BY <1>1, StaysBefore DEF Fewer
    <3>2. n \notin Kept /\ \A k \in SentAt(n) : i + 1 < k
      BY <3>1 DEF ClientInv, ReleasedFirst
    <3>3. n # m
      BY <1>1, <3>1, <3>2
    <3>4. \A k \in SentAt(n)' : i < k
      BY <1>1, <3>2, StaysBefore
    <3>5. QED BY <1>5, <3>2, <3>3, <3>4
  <2>5. ExchangeInv'
    <3>1. ASSUME NEW e \in exchanges, e.message.qos = 2, e.stage = "sent", e.message = m,
                 NEW i \in RelAt(m.id)'
          PROVE  FALSE
      <4>1. i \in Nat /\ i + 1 \in RelAt(m.id)
        BY <1>1 DEF Fewer
      <4>2. i + 1 < 1
        BY <1>1, <3>1, <4>1 DEF ExchangeInv, SentAfresh
      <4>3. QED BY <4>1, <4>2
    <3>2. QED BY <1>1, <1>5, <3>1, ExchangeInvKept
  <2>6. QED BY <2>1, <2>2, <2>3, <2>4, <2>5 DEF ClientInv
<1>6. QED BY <1>1, <1>3, <1>4, <1>5, PublishEffects

\* handle_packet(pubrel), however often it comes.
LEMMA PubrelTakenInv ==
    ASSUME SessionTypeOK, MessageInv, ClientInv, ExchangeInv,
           NEW id \in Ids, Received, ReceivePubrel(id)
    PROVE  ClientInv' /\ ExchangeInv'
<1>1. /\ Fewer(1) /\ exchanges' = exchanges /\ published' = published
      /\ 1 \in RelAt(id) /\ HandlePubrel(id)
  BY TakesOne, ClientTakes DEF ReceivePubrel
<1>2. ASSUME NEW m \in Kept, m.id = id, m \in Publication, delivered' = Append(delivered, m),
             Handed' = Handed \cup {m}, Kept' = Kept \ {m}
      PROVE  ClientInv' /\ ExchangeInv'
  <2>1. m.qos = 2 /\ m \notin Handed
    BY DEF ClientInv, KeptUnhanded
  <2>2. KeptUnhanded' /\ StoredApart'
    BY <1>1, <1>2, PubrelEffects DEF ClientInv, KeptUnhanded
  <2>3. ASSUME NEW j \in SentAt(m)' PROVE FALSE
    <3>1. j \in Nat /\ j >= 1 /\ j + 1 \in SentAt(m)
      BY ClientTakes
    <3>2. 1 < j + 1
      BY <3>1
    <3>3. QED BY <1>1, <1>2, <2>1, <3>1, <3>2 DEF ClientInv, ReleasedFirst
  <2>4. HandedGone'
    <3>1. \A n \in Handed : n.qos = 2 => SentAt(n)' = {}
      BY <1>1, FewerSent DEF ClientInv, HandedGone
    <3>2. QED BY <1>2, <2>3, <3>1 DEF HandedGone
  <2>5. ReleasedFirst'
    BY <1>1, <1>2, ReleasedFirstKept DEF ClientInv
  <2>6. Qos2Once'
    <3>1. \A n \in Handed : n.op # m.op
      <4> SUFFICES ASSUME NEW n \in Handed, n.op = m.op PROVE FALSE
        OBVIOUS
      <4>1. IsPublished(m) /\ IsPublished(n)
        BY <1>2 DEF MessageInv
      <4>2. m = n
        BY <4>1, OneOfANumber
      <4>3. QED BY <2>1, <4>2
    <3>2. QED BY <1>2, <3>1, HandedOnce DEF ClientInv
  <2>7. ExchangeInv'
    <3>1. \A e \in exchanges : e.message.qos = 2 /\ e.stage = "sent" => e.message # m
      BY <1>1, <1>2 DEF ExchangeInv, SentAfresh
    <3>2. QED BY <1>1, <1>2, <3>1, ExchangeInvKept
  <2>8. QED BY <2>2, <2>4, <2>5, <2>6, <2>7 DEF ClientInv
<1>3. CASE stored' = stored /\ delivered' = delivered
  <2>1. Kept' = Kept /\ Handed' = Handed
    BY <1>3 DEF Kept, Handed
  <2>2. QED BY <1>1, <1>3, <2>1, ClientInvKept, ExchangeInvKept
<1>4. StoredApart
  BY DEF ClientInv
<1>5. QED BY <1>1, <1>2, <1>3, <1>4, PubrelEffects

\* What the client says to a PUBLISH.
LEMMA PublishReplied ==
    ASSUME SessionTypeOK, ClientInv, ExchangeInv, ReplyInv, open,
           NEW m \in Publication, Received, ReceivePublish(m)
    PROVE  ReplyInv'
<1>1. /\ Fewer(1) /\ exchanges' = exchanges /\ toServer' = toServer
      /\ 1 \in SentAt(m) /\ HandlePublish(m)
  BY TakesOne, ClientTakes DEF ReceivePublish
<1>2. \A e \in exchanges : SentAt(e.message)' # {} => SentAt(e.message) # {}
  BY <1>1, FewerSent
<1>3. \A e \in exchanges : e.message \in Publication /\ e.message.id \in Ids
  BY DEF SessionTypeOK, Exchange, Publication
<1>4. m.id \in Ids
  BY DEF Publication
<1>5. \A type, id : \A i \in ReplyAt(type, id) : i \in Nat /\ i <= Len(Replies)
  BY RepliesType
<1>6. CASE m.qos = 0
  <2>1. /\ \A type, id : ReplyAt(type, id)' = ReplyAt(type, id)
        /\ Kept' = Kept /\ Handed' = Handed \cup {m}
    <3>1. outgoing' = outgoing
      BY <1>1, <1>6 DEF HandlePublish
    <3>2. Replies' = Replies
      BY <1>1, <3>1 DEF Replies
    <3>3. \A type, id : ReplyAt(type, id)' = ReplyAt(type, id)
      BY <3>2 DEF ReplyAt, Answer
    <3>4. QED BY <1>1, <1>6, <3>3, PublishEffects
  <2>2. KeptKnown' /\ RecKnown' /\ AckKnown' /\ AckOnce' /\ RecOfSent' /\ CompOfReleased'
    BY <1>1, <2>1 DEF ReplyInv, KeptKnown, RecKnown, AckKnown, AckOnce, RecOfSent, CompOfReleased
  <2>3. AckAfter'
    BY <1>1, <1>2, <2>1 DEF ReplyInv, AckAfter
  <2>4. QED BY <2>2, <2>3 DEF ReplyInv
<1>7. ASSUME m.qos > 0 PROVE \E e \in exchanges : e.message = m
  BY <1>1, <1>7 DEF ExchangeInv, SentKnown
<1>8. CASE m.qos = 1
  <2>1. /\ \A t \in Answers : \A jd : t # "puback" \/ jd # m.id => ReplyAt(t, jd)' = ReplyAt(t, jd)
        /\ ReplyAt("puback", m.id)' = ReplyAt("puback", m.id) \cup {Len(Replies')}
    <3>1. Write(Append(Complaint, Answer("puback", m.id)))
      BY <1>1, <1>8 DEF HandlePublish
    <3>2. "puback" \in Answers
      BY DEF Answers
    <3>3. QED BY <1>1, <1>4, <3>1, <3>2, Replied
  <2>2. \A id : /\ ReplyAt("pubrec", id)' = ReplyAt("pubrec", id)
                /\ ReplyAt("pubcomp", id)' = ReplyAt("pubcomp", id)
                /\ id # m.id => ReplyAt("puback", id)' = ReplyAt("puback", id)
    BY <2>1 DEF Answers
  <2>3. Kept' = Kept /\ Handed' = Handed \cup {m}
    BY <1>1, <1>8, PublishEffects
  <2>4. PICK e \in exchanges : e.message = m
    BY <1>7, <1>8
  <2>5. ReplyAt("puback", m.id) = {}
    BY <1>1, <1>8, <2>4 DEF ReplyInv, AckAfter
  <2>6. SentAt(m)' = {}
    <3> SUFFICES ASSUME NEW j \in SentAt(m)' PROVE FALSE
      OBVIOUS
    <3>1. j \in Nat /\ j >= 1 /\ j + 1 \in SentAt(m)
      BY ClientTakes
    <3>2. j + 1 = 1
      BY <1>1, <1>8, <3>1 DEF ExchangeInv, SentOnce
    <3>3. QED BY <3>1, <3>2
  <2>7. KeptKnown' /\ RecKnown' /\ RecOfSent' /\ CompOfReleased'
    <3>1. KeptKnown' /\ RecKnown'
      BY <1>1, <2>2, <2>3 DEF ReplyInv, KeptKnown, RecKnown
    <3>2. RecOfSent'
      BY <1>1, <2>2, <2>3 DEF ReplyInv, RecOfSent
    <3>3. CompOfReleased'
      BY <1>1, <2>2, <2>3 DEF ReplyInv, CompOfReleased
    <3>4. QED BY <3>1, <3>2, <3>3
  <2>8. AckKnown'
    <3> SUFFICES ASSUME NEW id \in Ids, ReplyAt("puback", id)' # {}
                 PROVE  \E f \in exchanges :
                            f.message.id = id /\ f.message.qos = 1 /\ f.message \in Handed'
      BY <1>1 DEF AckKnown
    <3>1. CASE id = m.id
      BY <1>8, <2>3, <2>4, <3>1
    <3>2. CASE id # m.id
      BY <2>2, <2>3, <3>2 DEF ReplyInv, AckKnown
    <3>3. QED BY <3>1, <3>2
  <2>9. AckOnce'
    <3> SUFFICES ASSUME NEW id \in Ids, NEW i \in ReplyAt("puback", id)', NEW j \in ReplyAt("puback", id)'
                 PROVE  i = j
      BY DEF AckOnce
    <3>1. CASE id = m.id
      BY <2>1, <2>5, <3>1
    <3>2. CASE id # m.id
      BY <2>2, <3>2 DEF ReplyInv, AckOnce
    <3>3. QED BY <3>1, <3>2
  <2>10. AckAfter'
    <3> SUFFICES ASSUME NEW f \in exchanges, f.message.qos = 1, SentAt(f.message)' # {}
                 PROVE  ReplyAt("puback", f.message.id)' = {}
      BY <1>1 DEF AckAfter
    <3>1. f.message.id # m.id
      <4>1. f.message # m
        BY <2>6
      <4>2. QED BY <2>4, <4>1 DEF ExchangeInv, OneExchange
    <3>2. QED BY <1>2, <2>2, <3>1 DEF ReplyInv, AckAfter
  <2>11. QED BY <2>7, <2>8, <2>9, <2>10 DEF ReplyInv
<1>9. CASE m.qos = 2
  <2>1. /\ \A t \in Answers : \A jd : t # "pubrec" \/ jd # m.id => ReplyAt(t, jd)' = ReplyAt(t, jd)
        /\ ReplyAt("pubrec", m.id)' = ReplyAt("pubrec", m.id) \cup {Len(Replies')}
        /\ Len(Replies') \in Nat /\ Len(Replies) < Len(Replies')
    <3>1. Write(Append(Complaint, Answer("pubrec", m.id)))
      BY <1>1, <1>9 DEF HandlePublish
    <3>2. "pubrec" \in Answers
      BY DEF Answers
    <3>3. QED BY <1>1, <1>4, <3>1, <3>2, Replied
  <2>2. \A id : /\ ReplyAt("puback", id)' = ReplyAt("puback", id)
                /\ ReplyAt("pubcomp", id)' = ReplyAt("pubcomp", id)
                /\ id # m.id => ReplyAt("pubrec", id)' = ReplyAt("pubrec", id)
    BY <2>1 DEF Answers
  <2>3. PICK e \in exchanges : e.message = m
    BY <1>7, <1>9
  <2>4. \A f \in exchanges : f.message.id = m.id => f = e
    BY <2>3 DEF ExchangeInv, OneExchange
  <2>5. Handed' = Handed /\ Kept \subseteq Kept' /\ Kept' \subseteq Kept \cup {m} /\ m \in Kept'
    <3>1. ASSUME NEW k \in Kept, k.id = m.id PROVE k = m
      <4>1. PICK f \in exchanges : f.message = k
        BY DEF ReplyInv, KeptKnown
      <4>2. QED BY <2>3, <2>4, <3>1, <4>1
    <3>2. \/ /\ Handed' = Handed
             /\ \/ Kept' = Kept /\ \E k \in Kept : k.id = m.id
                \/ Kept' = Kept \cup {m}
      BY <1>1, <1>9, PublishEffects
    <3>3. QED BY <3>1, <3>2
  <2>6. ReplyAt("pubcomp", m.id) # {} => e.stage = "sent"
    <3>1. e.stage = "sent" \/ e.stage = "released"
      BY DEF SessionTypeOK, Exchange
    <3>2. m \notin Handed
      BY <1>1, <1>9 DEF ClientInv, HandedGone
    <3>3. QED BY <1>9, <2>3, <3>1, <3>2 DEF ReplyInv, CompOfReleased
  <2>7. KeptKnown'
    BY <1>1, <2>3, <2>5 DEF ReplyInv, KeptKnown
  <2>8. RecKnown'
    <3> SUFFICES ASSUME NEW id \in Ids, ReplyAt("pubrec", id)' # {}
                 PROVE  \E f \in exchanges : f.message.id = id /\ f.message.qos = 2
      BY <1>1 DEF RecKnown
    <3>1. CASE id = m.id
      BY <1>9, <2>3, <3>1
    <3>2. CASE id # m.id
      BY <2>2, <3>2 DEF ReplyInv, RecKnown
    <3>3. QED BY <3>1, <3>2
  <2>9. AckKnown' /\ AckOnce'
    BY <1>1, <2>2, <2>5 DEF ReplyInv, AckKnown, AckOnce
  <2>10. AckAfter'
    BY <1>1, <1>2, <2>2 DEF ReplyInv, AckAfter
  <2>11. RecOfSent'
    <3> SUFFICES ASSUME NEW f \in exchanges, f.message.qos = 2, f.stage = "sent"
                 PROVE  /\ ReplyAt("pubrec", f.message.id)' # {} => f.message \in Kept'
                        /\ \A i \in ReplyAt("pubrec", f.message.id)',
                              j \in ReplyAt("pubcomp", f.message.id)' : j < i
      BY <1>1 DEF RecOfSent
    <3>1. CASE f.message.id = m.id
      <4>1. f.message \in Kept'
        BY <2>3, <2>4, <2>5, <3>1
      <4>2. ASSUME NEW i \in ReplyAt("pubrec", m.id)', NEW j \in ReplyAt("pubcomp", m.id)'
            PROVE  j < i
        <5>1. j \in ReplyAt("pubcomp", m.id) /\ j \in Nat /\ j <= Len(Replies)
          BY <1>5, <2>2
        <5>2. Len(Replies) \in Nat
          BY RepliesType
        <5>3. CASE i = Len(Replies')
          BY <2>1, <5>1, <5>2, <5>3
        <5>4. CASE i \in ReplyAt("pubrec", m.id)
          BY <3>1, <5>1, <5>4 DEF ReplyInv, RecOfSent
        <5>5. QED BY <2>1, <5>3, <5>4
      <4>3. QED BY <3>1, <4>1, <4>2
    <3>2. CASE f.message.id # m.id
      BY <2>2, <2>5, <3>2 DEF ReplyInv, RecOfSent
    <3>3. QED BY <3>1, <3>2
  <2>12. CompOfReleased'
    <3> SUFFICES ASSUME NEW f \in exchanges, f.message.qos = 2, f.stage = "released"
                 PROVE  /\ f.message \in Kept' \cup Handed'
                        /\ ReplyAt("pubcomp", f.message.id)' # {} => f.message \in Handed'
                        /\ \A i \in ReplyAt("pubrec", f.message.id)',
                              j \in ReplyAt("pubcomp", f.message.id)' : i < j
      BY <1>1 DEF CompOfReleased
    <3>1. f.message \in Kept' \cup Handed'
      BY <2>5 DEF ReplyInv, CompOfReleased
    <3>2. CASE f.message.id = m.id
      <4>1. ReplyAt("pubcomp", f.message.id)' = {}
        BY <2>2, <2>4, <2>6, <3>2
      <4>2. QED BY <3>1, <4>1
    <3>3. CASE f.message.id # m.id
      BY <2>2, <2>5, <3>1, <3>3 DEF ReplyInv, CompOfReleased
    <3>4. QED BY <3>2, <3>3
  <2>13. QED BY <2>7, <2>8, <2>9, <2>10, <2>11, <2>12 DEF ReplyInv
<1>10. QED BY <1>1, <1>6, <1>8, <1>9 DEF HandlePublish

\* What it says to a PUBREL.
LEMMA PubrelReplied ==
    ASSUME SessionTypeOK, ClientInv, ExchangeInv, ReplyInv, open,
           NEW id \in Ids, Received, ReceivePubrel(id)
    PROVE  ReplyInv'
<1>1. /\ Fewer(1) /\ exchanges' = exchanges /\ toServer' = toServer
      /\ 1 \in RelAt(id) /\ HandlePubrel(id)
  BY TakesOne, ClientTakes DEF ReceivePubrel
<1>2. \A e \in exchanges : SentAt(e.message)' # {} => SentAt(e.message) # {}
  BY <1>1, FewerSent
<1>3. /\ \A t \in Answers : \A jd : t # "pubcomp" \/ jd # id => ReplyAt(t, jd)' = ReplyAt(t, jd)
      /\ ReplyAt("pubcomp", id)' = ReplyAt("pubcomp", id) \cup {Len(Replies')}
      /\ Len(Replies') \in Nat /\ Len(Replies) < Len(Replies')
  <2>1. Write(<<Answer("pubcomp", id)>>)
    BY <1>1 DEF HandlePubrel
  <2>2. "pubcomp" \in Answers
    BY DEF Answers
  <2>3. QED BY <1>1, <2>1, <2>2, Replied
<1>4. \A jd : /\ ReplyAt("puback", jd)' = ReplyAt("puback", jd)
              /\ ReplyAt("pubrec", jd)' = ReplyAt("pubrec", jd)
              /\ jd # id => ReplyAt("pubcomp", jd)' = ReplyAt("pubcomp", jd)
  BY <1>3 DEF Answers
<1>5. /\ Kept' \subseteq Kept /\ Handed \subseteq Handed'
      /\ \A k \in Kept : k.id # id => k \in Kept'
      /\ \A k \in Kept : k.id = id => k \in Handed'
  <2>1. ASSUME NEW k \in Kept, NEW l \in Kept, k.id = l.id PROVE k = l
    <3>1. PICK e \in exchanges, f \in exchanges : e.message = k /\ f.message = l
      BY DEF ReplyInv, KeptKnown
    <3>2. QED BY <2>1, <3>1 DEF ExchangeInv, OneExchange
  <2>2. \/ \E m \in Kept : m.id = id /\ Handed' = Handed \cup {m} /\ Kept' = Kept \ {m}
        \/ Kept' = Kept /\ Handed' = Handed /\ \A k \in Kept : k.id # id
    <3>1. StoredApart
      BY DEF ClientInv
    <3>2. QED BY <1>1, <3>1, PubrelEffects
  <2>3. QED BY <2>1, <2>2
<1>6. KeptKnown' /\ RecKnown' /\ AckKnown' /\ AckOnce'
  BY <1>1, <1>4, <1>5 DEF ReplyInv, KeptKnown, RecKnown, AckKnown, AckOnce
<1>7. AckAfter'
  BY <1>1, <1>2, <1>4 DEF ReplyInv, AckAfter
<1>8. RecOfSent'
  <2> SUFFICES ASSUME NEW e \in exchanges, e.message.qos = 2, e.stage = "sent"
               PROVE  /\ ReplyAt("pubrec", e.message.id)' # {} => e.message \in Kept'
                      /\ \A i \in ReplyAt("pubrec", e.message.id)',
                            j \in ReplyAt("pubcomp", e.message.id)' : j < i
    BY <1>1 DEF RecOfSent
  <2>1. CASE e.message.id = id
    <3>1. e.message \notin Kept
      BY <1>1, <2>1 DEF ExchangeInv, SentAfresh
    <3>2. ReplyAt("pubrec", e.message.id)' = {}
      BY <1>4, <3>1 DEF ReplyInv, RecOfSent
    <3>3. QED BY <3>2
  <2>2. CASE e.message.id # id
    BY <1>4, <1>5, <2>2 DEF ReplyInv, RecOfSent
  <2>3. QED BY <2>1, <2>2
<1>9. CompOfReleased'
  <2> SUFFICES ASSUME NEW e \in exchanges, e.message.qos = 2, e.stage = "released"
               PROVE  /\ e.message \in Kept' \cup Handed'
                      /\ ReplyAt("pubcomp", e.message.id)' # {} => e.message \in Handed'
                      /\ \A i \in ReplyAt("pubrec", e.message.id)',
                            j \in ReplyAt("pubcomp", e.message.id)' : i < j
    BY <1>1 DEF CompOfReleased
  <2>1. CASE e.message.id = id
    <3>1. e.message \in Handed'
      BY <1>5, <2>1 DEF ReplyInv, CompOfReleased
    <3>2. ASSUME NEW i \in ReplyAt("pubrec", id)', NEW j \in ReplyAt("pubcomp", id)'
          PROVE  i < j
      <4>1. i \in ReplyAt("pubrec", id) /\ i \in Nat /\ i <= Len(Replies) /\ Len(Replies) \in Nat
        BY <1>4, RepliesType
      <4>2. CASE j = Len(Replies')
        BY <1>3, <4>1, <4>2
      <4>3. CASE j \in ReplyAt("pubcomp", id)
        BY <2>1, <4>1, <4>3 DEF ReplyInv, CompOfReleased
      <4>4. QED BY <1>3, <4>2, <4>3
    <3>3. QED BY <2>1, <3>1, <3>2
  <2>2. CASE e.message.id # id
    BY <1>4, <1>5, <2>2 DEF ReplyInv, CompOfReleased
  <2>3. QED BY <2>1, <2>2
<1>10. QED BY <1>6, <1>7, <1>8, <1>9 DEF ReplyInv
-----------------------------------------------------------------------------
(* The steps together *)

\* Nothing is answered and nothing handled.
LEMMA ReplyInvKept ==
    ASSUME ReplyInv, exchanges' = exchanges, Kept' = Kept, Handed' = Handed, Replies' = Replies,
           \A e \in exchanges : e.message.qos = 1 /\ SentAt(e.message)' # {} => SentAt(e.message) # {}
    PROVE  ReplyInv'
<1>1. \A type, id : ReplyAt(type, id)' = ReplyAt(type, id)
  BY DEF ReplyAt, Answer
<1>2. KeptKnown' /\ RecKnown' /\ AckKnown' /\ AckOnce'
  BY <1>1 DEF ReplyInv, KeptKnown, RecKnown, AckKnown, AckOnce
<1>3. AckAfter'
  BY <1>1 DEF ReplyInv, AckAfter
<1>4. RecOfSent'
  BY <1>1 DEF ReplyInv, RecOfSent
<1>5. CompOfReleased'
  BY <1>1 DEF ReplyInv, CompOfReleased
<1>6. QED BY <1>2, <1>3, <1>4, <1>5 DEF ReplyInv

\* No answer with the identifier of a new exchange is under way.
LEMMA PublishedReply ==
    ASSUME SessionTypeOK, ReplyInv, NEW m \in Publication, ServerPublish(m)
    PROVE  ReplyInv'
<1> DEFINE new == [message |-> m, stage |-> "sent"]
<1>1. /\ Kept' = Kept /\ Handed' = Handed /\ Replies' = Replies
      /\ toClient' = Append(toClient, MessagePacket(m))
      /\ \/ /\ m.qos > 0 /\ exchanges' = exchanges \cup {new}
            /\ \A f \in exchanges : f.message.id # m.id
         \/ m.qos = 0 /\ exchanges' = exchanges
  BY DEF ServerPublish, Publish, MessagePacket, vars, history, Kept, Handed, Replies
<1>2. m.id \in Ids
  BY DEF Publication
<1>3. \A type, id : ReplyAt(type, id)' = ReplyAt(type, id)
  BY <1>1 DEF ReplyAt, Answer
<1>4. \A n : n # m => SentAt(n)' = SentAt(n)
  BY <1>1, ClientGetsPublish
<1>5. CASE m.qos = 0 /\ exchanges' = exchanges
  BY <1>1, <1>4, <1>5, ReplyInvKept
<1>6. CASE /\ m.qos > 0 /\ exchanges' = exchanges \cup {new}
           /\ \A f \in exchanges : f.message.id # m.id
  <2>1. ReplyAt("pubrec", m.id) = {} /\ ReplyAt("puback", m.id) = {}
    BY <1>2, <1>6 DEF ReplyInv, RecKnown, AckKnown
  <2>2. new.message = m /\ new.stage = "sent"
    OBVIOUS
  <2>3. \A e \in exchanges' : e \in exchanges \/ (e.message = m /\ e.stage = "sent")
    BY <1>6
  <2>4. exchanges \subseteq exchanges'
    BY <1>6
  <2> HIDE DEF new
  <2>5. KeptKnown' /\ RecKnown' /\ AckKnown' /\ AckOnce'
    BY <1>1, <1>3, <2>4 DEF ReplyInv, KeptKnown, RecKnown, AckKnown, AckOnce
  <2>6. AckAfter'
    BY <1>3, <1>4, <1>6, <2>1, <2>3 DEF ReplyInv, AckAfter
  <2>7. RecOfSent'
    BY <1>1, <1>3, <2>1, <2>3 DEF ReplyInv, RecOfSent
  <2>8. CompOfReleased'
    BY <1>1, <1>3, <2>3 DEF ReplyInv, CompOfReleased
  <2>9. QED BY <2>5, <2>6, <2>7, <2>8 DEF ReplyInv
<1>7. QED BY <1>1, <1>5, <1>6

\* The invariants of the two sides, with what the answers say as long as the
\* socket is open.
SidesInv == ClientInv /\ ExchangeInv /\ (open => ReplyInv)

\* Steps of neither the server nor the handlers.
LEMMA SidesKept ==
    ASSUME SidesInv, NEW d \in Nat, Fewer(d), open' => open /\ Replies' = Replies,
           stored' = stored, delivered' = delivered,
           exchanges' = exchanges, published' = published
    PROVE  SidesInv'
<1>1. Kept' = Kept /\ Handed' = Handed
  BY DEF Kept, Handed
<1>2. ClientInv' /\ ExchangeInv'
  BY <1>1, ClientInvKept, ExchangeInvKept DEF SidesInv
<1>3. open' => ReplyInv'
  BY <1>1, FewerSent, ReplyInvKept DEF SidesInv
<1>4. QED BY <1>2, <1>3 DEF SidesInv

LEMMA SidesStep ==
    ASSUME SessionTypeOK, SessionTypeOK', MessageInv, SidesInv, [SessionNext]_sessionVars
    PROVE  SidesInv'
<1>1. ClientInv /\ ExchangeInv /\ (open => ReplyInv)
  BY DEF SidesInv
<1>2. ASSUME NEW m \in Publication, m.op = Len(published) + 1, ServerPublish(m)
      PROVE  SidesInv'
  <2>1. ClientInv' /\ ExchangeInv'
    BY <1>1, <1>2, PublishedInv
  <2>2. ReplyInv'
    <3>1. open
      BY <1>2 DEF ServerPublish
    <3>2. QED BY <1>1, <1>2, <3>1, PublishedReply
  <2>3. QED BY <2>1, <2>2 DEF SidesInv
<1>3. ASSUME NEW e \in exchanges, ServerResend(e) PROVE SidesInv'
  <2>1. ClientInv' /\ ExchangeInv'
    BY <1>1, <1>3, ResentInv
  <2>2. /\ open /\ exchanges' = exchanges /\ Kept' = Kept /\ Handed' = Handed /\ Replies' = Replies
        /\ e.message.qos = 2 /\ e.message \in Publication /\ e.message.id \in Ids
        /\ \/ toClient' = Append(toClient, MessagePacket(e.message))
           \/ toClient' = Append(toClient, Pubrel(e.message.id))
    BY <1>3 DEF ServerResend, Publish, MessagePacket, vars, history, Kept, Handed, Replies,
                SessionTypeOK, Exchange, Publication
  <2>3. \A n : n # e.message => SentAt(n)' = SentAt(n)
    BY <2>2, ClientGetsPublish, ClientGetsPubrel
  <2>4. \A f \in exchanges : f.message.qos = 1 => f.message # e.message
    BY <2>2
  <2>5. ReplyInv'
    BY <1>1, <2>2, <2>3, <2>4, ReplyInvKept
  <2>6. QED BY <2>1, <2>5 DEF SidesInv
<1>4. ASSUME ServerReceive PROVE SidesInv'
  <2>1. open
    BY <1>4 DEF ServerReceive
  <2>2. QED BY <1>1, <1>4, <2>1, AnswerTakenInv DEF SidesInv
<1>5. ASSUME ClientConnects PROVE SidesInv'
  <2>1. Fewer(0)
    <3> DEFINE p == [type |-> "connack"]
    <3>1. p \in ServerPacket /\ toClient' = Append(toClient, p)
      BY <1>5 DEF ClientConnects, ServerPacket
    <3>2. (\A m : p # MessagePacket(m)) /\ \A id : p # Pubrel(id)
      BY PacketsDiffer
    <3> HIDE DEF p
    <3>3. /\ \A m : SentAt(m)' = SentAt(m) \cup (IF p = MessagePacket(m) THEN {Len(toClient) + 1} ELSE {})
          /\ \A id : RelAt(id)' = RelAt(id) \cup (IF p = Pubrel(id) THEN {Len(toClient) + 1} ELSE {})
      BY <3>1, ClientGets
    <3>4. (\A m : SentAt(m)' = SentAt(m)) /\ \A id : RelAt(id)' = RelAt(id)
      BY <3>2, <3>3
    <3>5. /\ \A m : \A i \in SentAt(m) : i \in Nat /\ i + 0 = i
          /\ \A id : \A i \in RelAt(id) : i \in Nat /\ i + 0 = i
      BY ClientQueue
    <3>6. QED BY <3>4, <3>5 DEF Fewer
  <2>2. /\ open' = open /\ Replies' = Replies /\ stored' = stored /\ delivered' = delivered
        /\ exchanges' = exchanges /\ published' = published
    BY <1>5 DEF ClientConnects, StartHandshake, server, history, Replies
  <2>3. QED BY <2>1, <2>2, SidesKept
<1>6. ASSUME Received, ReceiveConnack PROVE SidesInv'
  <2>1. /\ open' = open /\ Replies' = Replies /\ stored' = stored /\ delivered' = delivered
        /\ exchanges' = exchanges /\ published' = published
    BY <1>6 DEF Received, ReceiveConnack, HandleConnack, server, history, Replies
  <2>2. QED BY <1>6, <2>1, TakesOne, SidesKept
<1>7. ASSUME NEW m \in Publication, Received, ReceivePublish(m) PROVE SidesInv'
  <2>1. open' = open
    BY <1>7 DEF ReceivePublish, HandlePublish
  <2>2. QED BY <1>1, <1>7, <2>1, PublishTakenInv, PublishReplied DEF SidesInv
<1>8. ASSUME NEW id \in Ids, Received, ReceivePubrel(id) PROVE SidesInv'
  <2>1. open' = open
    BY <1>8 DEF ReceivePubrel, HandlePubrel
  <2>2. QED BY <1>1, <1>8, <2>1, PubrelTakenInv, PubrelReplied DEF SidesInv
<1>9. ASSUME NEW n \in 0 .. Len(toClient), toClient' = SubSeq(toClient, 1, n) PROVE Fewer(0)
  <2>1. /\ \A m : SentAt(m)' \subseteq SentAt(m)
        /\ \A id : RelAt(id)' \subseteq RelAt(id)
    BY <1>9, ClientLoses
  <2>2. /\ \A m : \A i \in SentAt(m) : i \in Nat /\ i + 0 = i
        /\ \A id : \A i \in RelAt(id) : i \in Nat /\ i + 0 = i
    BY ClientQueue
  <2>3. QED BY <2>1, <2>2 DEF Fewer
<1>10. ASSUME toClient' = toClient PROVE Fewer(0)
  <2>1. /\ \A m : SentAt(m)' = SentAt(m)
        /\ \A id : RelAt(id)' = RelAt(id)
    BY <1>10 DEF SentAt, RelAt
  <2>2. /\ \A m : \A i \in SentAt(m) : i \in Nat /\ i + 0 = i
        /\ \A id : \A i \in RelAt(id) : i \in Nat /\ i + 0 = i
    BY ClientQueue
  <2>3. QED BY <2>1, <2>2 DEF Fewer
<1>11. ASSUME ClientWrites PROVE SidesInv'
  <2>1. /\ toClient' = toClient /\ stored' = stored /\ delivered' = delivered
        /\ exchanges' = exchanges /\ published' = published
        /\ open' => open
    BY <1>11 DEF ClientWrites, WriteCompletes, server, history
  <2>2. open' => Replies' = Replies
    BY <1>11, WrittenIsReply
  <2>3. QED BY <1>10, <2>1, <2>2, SidesKept
<1>12. ASSUME Disconnect PROVE SidesInv'
  <2>1. /\ stored' = stored /\ delivered' = delivered
        /\ exchanges' = exchanges /\ published' = published /\ ~open'
    BY <1>12 DEF Disconnect, Close, server, history
  <2>2. Fewer(0)
    BY <1>9, <1>12 DEF Disconnect
  <2>3. QED BY <2>1, <2>2, SidesKept
<1>13. CASE UNCHANGED <<toClient, toServer, outgoing, open, stored, delivered, exchanges, published>>
  <2>1. Replies' = Replies
    BY <1>13 DEF Replies
  <2>2. QED BY <1>10, <1>13, <2>1, SidesKept
<1>14. CASE \/ \E m \in ReceiveMaxima : Handshaker(m) /\ UNCHANGED <<toClient, toServer, server>>
            \/ \E r \in Receivers : Subscribe(r) /\ UNCHANGED <<toClient, toServer, server>>
            \/ UNCHANGED sessionVars
  BY <1>13, <1>14 DEF Handshaker, Subscribe, server, sessionVars, vars, history
<1>15. QED
  BY <1>2, <1>3, <1>4, <1>5, <1>6, <1>7, <1>8, <1>11, <1>12, <1>14, SessionSteps
-----------------------------------------------------------------------------
(* The server's window and the client's quota *)

LEMMA PendingCount ==
    ASSUME IsFiniteSet(exchanges)
    PROVE  /\ IsFiniteSet(Pending) /\ Cardinality(Pending) \in Nat
           /\ Cardinality(exchanges) \in Nat /\ Cardinality(Pending) <= Cardinality(exchanges)
<1>1. Pending \in SUBSET exchanges
  BY DEF Pending
<1>2. IsFiniteSet(Pending) /\ Cardinality(Pending) <= Cardinality(exchanges)
  BY <1>1, FS_Subset
<1>3. QED BY <1>2, FS_CardinalityType

\* Every PUBACK that is being written has an exchange of its own, of which no
\* PUBLISH is under way.
LEMMA PubacksBound ==
    ASSUME SessionTypeOK, ReplyInv, IsFiniteSet(exchanges)
    PROVE  Cardinality(Pending) + Pubacks(outgoing) <= Cardinality(exchanges)
<1> DEFINE A == {i \in DOMAIN outgoing : outgoing[i].type = "puback"}
           B == exchanges \ Pending
           f == [i \in A |-> CHOOSE e \in B : e.message.id = outgoing[i].id]
<1>1. /\ outgoing \in Seq(OutPacket) /\ toServer \in Seq(OutPacket)
      /\ DOMAIN outgoing = 1 .. Len(outgoing) /\ Len(outgoing) \in Nat /\ Len(toServer) \in Nat
  BY RepliesType, LenProperties
<1>2. ASSUME NEW i \in A
      PROVE  /\ outgoing[i].id \in Ids /\ i \in 1 .. Len(outgoing)
             /\ Len(toServer) + i \in ReplyAt("puback", outgoing[i].id)
  <2>1. i \in 1 .. Len(outgoing) /\ outgoing[i] \in OutPacket /\ outgoing[i].type = "puback"
    BY <1>1, ElementOfSeq
  <2>2. outgoing[i] \in AnswerPacket
    BY <2>1 DEF OutPacket, DisconnectPacket
  <2>3. outgoing[i].id \in Ids /\ outgoing[i] = Answer("puback", outgoing[i].id)
    BY <2>1, <2>2 DEF AnswerPacket, Answer
  <2>4. /\ Len(Replies) = Len(toServer) + Len(outgoing)
        /\ \A j \in 1 .. Len(toServer) + Len(outgoing) :
              Replies[j] = IF j <= Len(toServer) THEN toServer[j] ELSE outgoing[j - Len(toServer)]
    BY <1>1, ConcatProperties DEF Replies
  <2>5. /\ Len(toServer) + i \in 1 .. Len(toServer) + Len(outgoing)
        /\ ~(Len(toServer) + i <= Len(toServer)) /\ (Len(toServer) + i) - Len(toServer) = i
    BY <1>1, <2>1
  <2>6. Replies[Len(toServer) + i] = outgoing[i]
    BY <2>4, <2>5
  <2>7. QED BY <2>1, <2>3, <2>4, <2>5, <2>6 DEF ReplyAt, Positions
<1>3. ASSUME NEW i \in A PROVE \E e \in B : e.message.id = outgoing[i].id
  <2>1. PICK e \in exchanges : e.message.id = outgoing[i].id /\ e.message.qos = 1
    BY <1>2, <1>3 DEF ReplyInv, AckKnown
  <2>2. SentAt(e.message) = {}
    BY <1>2, <1>3, <2>1 DEF ReplyInv, AckAfter
  <2>3. QED BY <2>1, <2>2 DEF Pending
<1>4. \A i \in A : f[i] \in B /\ f[i].message.id = outgoing[i].id
  BY <1>3
<1>5. f \in [A -> B]
  BY <1>4
<1> HIDE DEF f
<1>6. ASSUME NEW i \in A, NEW j \in A, f[i] = f[j] PROVE i = j
  <2>1. outgoing[i].id = outgoing[j].id
    BY <1>4, <1>6
  <2>2. Len(toServer) + i = Len(toServer) + j
    BY <1>2, <1>6, <2>1 DEF ReplyInv, AckOnce
  <2>3. QED BY <1>1, <1>2, <1>6, <2>2
<1>7. Cardinality(A) <= Cardinality(B)
  <2>1. IsFiniteSet(B)
    BY FS_Difference
  <2> HIDE DEF A, B
  <2>2. QED BY <1>5, <1>6, <2>1, MatesBound
<1>8. Cardinality(B) = Cardinality(exchanges) - Cardinality(Pending)
  <2>1. exchanges \cap Pending = Pending
    BY DEF Pending
  <2>2. QED BY <2>1, FS_Difference
<1>9. Cardinality(A) = Pubacks(outgoing)
  BY DEF Pubacks
<1>10. Cardinality(A) \in Nat
  BY <1>1, <1>9, PubackCount
<1>11. QED BY <1>7, <1>8, <1>9, <1>10, PendingCount

\* What is still to come has quota.
LEMMA QuotaCovers ==
    ASSUME SessionTypeOK, open => ReplyInv, WindowInv,
           conn = "connected", Generous, leaked = 0
    PROVE  Cardinality(Pending) <= receiveQuota
<1>1. IsFiniteSet(exchanges) /\ Cardinality(exchanges) <= announced
  BY DEF WindowInv, WindowHeld
<1>2. announced \in Nat /\ receiveQuota \in Nat
  BY QuotaAssumption DEF SessionTypeOK, TypeOK
<1>3. Pubacks(outgoing) \in Nat
  BY RepliesType, PubackCount
<1>4. CASE open
  <2>1. receiveQuota + Pubacks(outgoing) >= announced
    BY <1>4 DEF WindowInv, QuotaHeld
  <2>2. Cardinality(Pending) + Pubacks(outgoing) <= Cardinality(exchanges)
    BY <1>1, <1>4, PubacksBound
  <2>3. QED BY <1>1, <1>2, <1>3, <2>1, <2>2, PendingCount
<1>5. CASE ~open
  BY <1>5 DEF WindowInv, QuotaHeld
<1>6. QED BY <1>4, <1>5

\* Nothing more is under way.
LEMMA PendingShrinks ==
    ASSUME IsFiniteSet(exchanges), exchanges' = exchanges, NEW d \in Nat, Fewer(d)
    PROVE  Cardinality(Pending') \in Nat /\ Cardinality(Pending') <= Cardinality(Pending)
<1>1. Pending' \in SUBSET Pending
  BY FewerSent DEF Pending
<1>2. QED BY <1>1, PendingCount, FS_Subset, FS_CardinalityType

LEMMA WindowTypes ==
    ASSUME SessionTypeOK
    PROVE  /\ announced \in Nat /\ receiveQuota \in Nat /\ receiveMaximum \in Nat /\ leaked \in Nat
           /\ excess \in Nat /\ Pubacks(outgoing) \in Nat /\ replaced \subseteq Nat
<1>1. replaced \subseteq Nat
  BY QuotaAssumption DEF SessionTypeOK, TypeOK
<1>2. QED BY <1>1, RepliesType, PubackCount, QuotaAssumption DEF SessionTypeOK, TypeOK

\* Steps that leave the client's quota and what it is writing alone.
LEMMA WindowKept ==
    ASSUME WindowInv,
           UNCHANGED <<conn, open, receiveMaximum, announced, replaced, receiveQuota, outgoing, leaked, excess>>,
           IsFiniteSet(exchanges'), Cardinality(exchanges') <= announced,
           conn = "idle" => exchanges' = {} /\ toClient' = <<>>,
           ~open => Cardinality(Pending') <= Cardinality(Pending) /\ Cardinality(Pending') \in Nat
                    /\ Cardinality(Pending) \in Nat /\ receiveQuota \in Nat
    PROVE  WindowInv'
<1>1. NothingYet' /\ WindowHeld' /\ NotAccused'
  BY DEF WindowInv, NothingYet, WindowHeld, NotAccused
<1>2. MaximumHeld'
  BY DEF WindowInv, MaximumHeld, Generous
<1>3. QuotaHeld'
  <2> SUFFICES ASSUME conn = "connected", Generous, leaked = 0
               PROVE  /\ open => receiveQuota' + Pubacks(outgoing') >= announced'
                      /\ ~open => Cardinality(Pending') <= receiveQuota'
    BY DEF QuotaHeld, Generous
  <2>1. /\ open => receiveQuota + Pubacks(outgoing) >= announced
        /\ ~open => Cardinality(Pending) <= receiveQuota
    BY DEF WindowInv, QuotaHeld
  <2>2. QED BY <2>1
<1>4. QED BY <1>1, <1>2, <1>3 DEF WindowInv

\* An answer leaves no more exchanges than there were.
LEMMA AnswerCount ==
    ASSUME SessionTypeOK, OneExchange, IsFiniteSet(exchanges), ServerReceive
    PROVE  IsFiniteSet(exchanges') /\ Cardinality(exchanges') <= Cardinality(exchanges)
<1> DEFINE a == Head(toServer)
<1>1. Concerned(a) \subseteq exchanges /\ \A e, f \in Concerned(a) : e = f
  BY DEF Concerned, OneExchange
<1>2. \/ exchanges' = (exchanges \ Concerned(a)) \cup {[e EXCEPT !.stage = "released"] : e \in Concerned(a)}
      \/ exchanges' = exchanges \ Concerned(a)
  BY DEF ServerReceive
<1>3. Cardinality(exchanges) \in Nat
  BY FS_CardinalityType
<1> HIDE DEF a
<1>4. CASE Concerned(a) = {}
  BY <1>2, <1>3, <1>4
<1>5. ASSUME NEW e \in Concerned(a)
      PROVE  IsFiniteSet(exchanges') /\ Cardinality(exchanges') <= Cardinality(exchanges)
  <2> DEFINE rest == exchanges \ {e}
             next == [e EXCEPT !.stage = "released"]
  <2>1. IsFiniteSet(rest) /\ Cardinality(rest) = Cardinality(exchanges) - 1
    BY <1>1, <1>5, FS_RemoveElement
  <2>2. Concerned(a) = {e}
    BY <1>1, <1>5
  <2>3. exchanges' = rest \cup {next} \/ exchanges' = rest
    BY <1>2, <2>2
  <2> HIDE DEF rest, next
  <2>4. /\ IsFiniteSet(rest \cup {next})
        /\ Cardinality(rest \cup {next}) = IF next \in rest THEN Cardinality(rest) ELSE Cardinality(rest) + 1
    BY <2>1, FS_AddElement
  <2>5. CASE exchanges' = rest \cup {next}
    <3>1. Cardinality(rest \cup {next}) <= Cardinality(exchanges)
      BY <1>3, <2>1, <2>4
    <3>2. QED BY <2>4, <2>5, <3>1
  <2>6. CASE exchanges' = rest
    BY <1>3, <2>1, <2>6
  <2>7. QED BY <2>3, <2>5, <2>6
<1>6. QED BY <1>4, <1>5

\* handle_packet(publish): the message is one of those that have quota.
LEMMA PublishWindow ==
    ASSUME SessionTypeOK, SessionTypeOK', SidesInv, WindowInv,
           NEW m \in Publication, Received, ReceivePublish(m)
    PROVE  WindowInv'
<1>1. /\ Fewer(1) /\ exchanges' = exchanges /\ toServer' = toServer
      /\ 1 \in SentAt(m) /\ HandlePublish(m)
  BY TakesOne, ClientTakes DEF ReceivePublish
<1>2. /\ conn = "connected"
      /\ UNCHANGED <<conn, open, receiveMaximum, announced, replaced>>
      /\ leaked' = IF m.qos = 2 /\ receiveQuota > 0 THEN leaked + 1 ELSE leaked
      /\ \/ m.qos = 0 /\ UNCHANGED <<receiveQuota, outgoing, excess>>
         \/ m.qos = 1 /\ Charge /\ Write(Append(Complaint, Answer("puback", m.id)))
         \/ m.qos = 2 /\ Charge
  BY <1>1 DEF HandlePublish, options
<1>3. /\ announced \in Nat /\ receiveQuota \in Nat /\ receiveMaximum \in Nat /\ leaked \in Nat
      /\ excess \in Nat /\ Pubacks(outgoing) \in Nat
  BY WindowTypes
<1>4. WindowHeld /\ IsFiniteSet(exchanges)
  BY DEF WindowInv, WindowHeld
<1>5. NothingYet' /\ WindowHeld' /\ MaximumHeld'
  BY <1>1, <1>2 DEF WindowInv, NothingYet, WindowHeld, MaximumHeld, Generous
<1>6. Cardinality(Pending') \in Nat /\ Cardinality(Pending') <= Cardinality(Pending)
  BY <1>1, <1>4, PendingShrinks
<1>7. SUFFICES ASSUME Generous, leaked' = 0
               PROVE  /\ excess' = 0
                      /\ open => receiveQuota' + Pubacks(outgoing') >= announced
                      /\ ~open => Cardinality(Pending') <= receiveQuota'
  BY <1>2, <1>5 DEF WindowInv, QuotaHeld, NotAccused, Generous
<1>8. leaked = 0
  BY <1>2, <1>3, <1>7
<1>9. /\ open => receiveQuota + Pubacks(outgoing) >= announced
      /\ Cardinality(Pending) <= receiveQuota /\ excess = 0
  BY <1>2, <1>7, <1>8, QuotaCovers DEF WindowInv, QuotaHeld, NotAccused, Generous, SidesInv
<1>10. CASE m.qos = 0 /\ UNCHANGED <<receiveQuota, outgoing, excess>>
  BY <1>3, <1>4, <1>6, <1>9, <1>10, PendingCount
<1>11. ASSUME m.qos > 0
       PROVE  /\ receiveQuota > 0
              /\ m.qos = 1 => Cardinality(Pending') <= Cardinality(Pending) - 1
  <2>1. PICK e \in exchanges : e.message = m
    BY <1>1, <1>11 DEF SidesInv, ExchangeInv, SentKnown
  <2>2. e \in Pending
    BY <1>1, <2>1 DEF Pending
  <2>3. IsFiniteSet(Pending) /\ Cardinality(Pending) \in Nat
    BY <1>4, PendingCount
  <2>4. /\ IsFiniteSet(Pending \ {e}) /\ Cardinality(Pending \ {e}) = Cardinality(Pending) - 1
        /\ Cardinality(Pending \ {e}) \in Nat
    BY <2>2, <2>3, FS_RemoveElement, FS_CardinalityType
  <2>5. receiveQuota > 0
    BY <1>3, <1>9, <2>3, <2>4
  <2>6. ASSUME m.qos = 1 PROVE Cardinality(Pending') <= Cardinality(Pending) - 1
    <3>1. SentAt(m)' = {}
      <4> SUFFICES ASSUME NEW j \in SentAt(m)' PROVE FALSE
        OBVIOUS
      <4>1. j \in Nat /\ j >= 1 /\ j + 1 \in SentAt(m)
        BY ClientTakes
      <4>2. j + 1 = 1
        BY <1>1, <2>6, <4>1 DEF SidesInv, ExchangeInv, SentOnce
      <4>3. QED BY <4>1, <4>2
    <3>2. Pending' \in SUBSET (Pending \ {e})
      BY <1>1, <2>1, <3>1, FewerSent DEF Pending
    <3>3. QED BY <2>4, <3>2, FS_Subset
  <2>7. QED BY <2>5, <2>6
<1>12. CASE m.qos = 2 /\ Charge
  BY <1>2, <1>3, <1>7, <1>11, <1>12
<1>13. CASE m.qos = 1 /\ Charge /\ Write(Append(Complaint, Answer("puback", m.id)))
  <2>1. receiveQuota > 0 /\ Cardinality(Pending') <= Cardinality(Pending) - 1
    BY <1>11, <1>13
  <2>2. receiveQuota' = receiveQuota - 1 /\ excess' = 0
    BY <1>3, <1>9, <1>13, <2>1 DEF Charge
  <2>3. open => Pubacks(outgoing') = Pubacks(outgoing) + 1
    <3>1. Answer("puback", m.id) \in AnswerPacket /\ Answer("puback", m.id).type = "puback"
      BY DEF Answer, AnswerPacket, Answers, Publication
    <3>2. TypeOK
      BY DEF SessionTypeOK
    <3>3. QED BY <1>13, <2>1, <3>1, <3>2, AnswerWritten
  <2>4. QED BY <1>3, <1>4, <1>6, <1>9, <2>1, <2>2, <2>3, PendingCount
<1>14. QED BY <1>2, <1>10, <1>12, <1>13

LEMMA WindowStep ==
    ASSUME SessionTypeOK, SessionTypeOK', SidesInv, WindowInv, [SessionNext]_sessionVars
    PROVE  WindowInv'
<1>1. /\ announced \in Nat /\ receiveQuota \in Nat /\ receiveMaximum \in Nat /\ leaked \in Nat
      /\ excess \in Nat /\ Pubacks(outgoing) \in Nat /\ replaced \subseteq Nat
  BY WindowTypes
<1>2. /\ IsFiniteSet(exchanges) /\ Cardinality(exchanges) <= announced
      /\ Cardinality(Pending) \in Nat /\ Cardinality(exchanges) \in Nat
      /\ Cardinality(Pending) <= Cardinality(exchanges)
  BY PendingCount DEF WindowInv, WindowHeld
<1>3. ASSUME NEW m \in Publication, ServerPublish(m) PROVE WindowInv'
  <2>1. open /\ conn # "idle" /\ UNCHANGED vars
    BY <1>3 DEF ServerPublish
  <2>2. IsFiniteSet(exchanges') /\ Cardinality(exchanges') <= announced
    <3> DEFINE new == [message |-> m, stage |-> "sent"]
    <3>1. /\ IsFiniteSet(exchanges \cup {new})
          /\ Cardinality(exchanges \cup {new})
             = IF new \in exchanges THEN Cardinality(exchanges) ELSE Cardinality(exchanges) + 1
      BY <1>2, FS_AddElement
    <3>2. \/ Cardinality(exchanges) < announced /\ exchanges' = exchanges \cup {new}
          \/ exchanges' = exchanges
      BY <1>3 DEF ServerPublish
    <3> HIDE DEF new
    <3>3. Cardinality(exchanges) < announced => Cardinality(exchanges \cup {new}) <= announced
      BY <1>1, <1>2, <3>1
    <3>4. CASE Cardinality(exchanges) < announced /\ exchanges' = exchanges \cup {new}
      BY <3>1, <3>3, <3>4
    <3>5. CASE exchanges' = exchanges
      BY <1>2, <3>5
    <3>6. QED BY <3>2, <3>4, <3>5
  <2>3. QED BY <2>1, <2>2, WindowKept DEF vars, options, history
<1>4. ASSUME NEW e \in exchanges, ServerResend(e) PROVE WindowInv'
  <2>1. open /\ UNCHANGED <<vars, exchanges>>
    BY <1>4 DEF ServerResend
  <2>2. conn # "idle"
    BY <1>4 DEF WindowInv, NothingYet
  <2>3. QED BY <1>2, <2>1, <2>2, WindowKept DEF vars, options, history
<1>5. ASSUME ServerReceive PROVE WindowInv'
  <2>1. open /\ UNCHANGED vars
    BY <1>5 DEF ServerReceive
  <2>2. IsFiniteSet(exchanges') /\ Cardinality(exchanges') <= Cardinality(exchanges)
    BY <1>2, <1>5, AnswerCount DEF SidesInv, ExchangeInv
  <2>3. Cardinality(exchanges') \in Nat
    BY <2>2, FS_CardinalityType
  <2>4. ASSUME conn = "idle" PROVE exchanges' = {} /\ toClient' = <<>>
    <3>1. exchanges = {} /\ toClient = <<>>
      BY <2>4 DEF WindowInv, NothingYet
    <3>2. exchanges' = {}
      BY <1>5, <3>1, AnswerEffects
    <3> DEFINE a == Head(toServer)
    <3>3. a.id \in Ids /\ (a.type = "pubrec" => ReplyAt("pubrec", a.id) # {})
      BY <1>5, AnswerEffects, ReplyTaken DEF AnswerPacket
    <3>4. a.type # "pubrec"
      BY <2>1, <3>1, <3>3 DEF SidesInv, ReplyInv, RecKnown
    <3>5. toClient' = toClient
      BY <1>5, <3>4, AnswerEffects
    <3>6. QED BY <3>1, <3>2, <3>5
  <2>5. QED BY <1>1, <1>2, <2>1, <2>2, <2>3, <2>4, WindowKept DEF vars, options, history
<1>6. ASSUME ClientConnects PROVE WindowInv'
  <2>1. /\ conn = "idle" /\ conn' = "handshaking" /\ announced' = receiveMaximum
        /\ UNCHANGED <<receiveMaximum, outgoing, leaked, excess, exchanges>>
    BY <1>6 DEF ClientConnects, StartHandshake, server, history
  <2>2. exchanges = {} /\ outgoing = <<>> /\ leaked = 0 /\ excess = 0
    BY <2>1 DEF WindowInv, NothingYet
  <2>3. IsFiniteSet(exchanges') /\ Cardinality(exchanges') <= announced'
    BY <1>1, <2>1, <2>2, FS_EmptySet
  <2>4. NothingYet' /\ WindowHeld' /\ MaximumHeld' /\ QuotaHeld' /\ NotAccused'
    BY <1>1, <2>1, <2>2, <2>3 DEF NothingYet, WindowHeld, MaximumHeld, QuotaHeld, NotAccused
  <2>5. QED BY <2>4 DEF WindowInv
<1>7. ASSUME Received, ReceiveConnack PROVE WindowInv'
  <2>1. /\ conn = "handshaking" /\ conn' = "connected" /\ receiveQuota' = receiveMaximum
        /\ UNCHANGED <<open, receiveMaximum, announced, replaced, outgoing, leaked, excess, exchanges>>
    BY <1>7 DEF Received, ReceiveConnack, HandleConnack, server, options, history
  <2>2. Generous => receiveMaximum >= announced
    BY <2>1 DEF WindowInv, MaximumHeld
  <2>3. excess = 0
    BY <2>1 DEF WindowInv, NothingYet
  <2>4. Cardinality(Pending') \in Nat /\ Cardinality(Pending') <= Cardinality(Pending)
    BY <1>2, <1>7, <2>1, TakesOne, PendingShrinks
  <2>5. NothingYet' /\ WindowHeld' /\ MaximumHeld' /\ NotAccused'
    BY <1>2, <2>1, <2>2, <2>3 DEF NothingYet, WindowHeld, MaximumHeld, NotAccused, Generous
  <2>6. QuotaHeld'
    <3> SUFFICES ASSUME Generous
                 PROVE  /\ receiveMaximum + Pubacks(outgoing) >= announced
                        /\ Cardinality(Pending') <= receiveMaximum
      BY <2>1 DEF QuotaHeld, Generous
    <3>1. QED BY <1>1, <1>2, <2>2, <2>4
  <2>7. QED BY <2>5, <2>6 DEF WindowInv
<1>8. ASSUME NEW m \in Publication, Received, ReceivePublish(m) PROVE WindowInv'
  BY <1>8, PublishWindow
<1>9. ASSUME NEW id \in Ids, Received, ReceivePubrel(id) PROVE WindowInv'
  <2>1. /\ conn = "connected" /\ Write(<<Answer("pubcomp", id)>>)
        /\ UNCHANGED <<conn, open, receiveMaximum, announced, replaced, receiveQuota, leaked, excess, exchanges>>
    BY <1>9 DEF Received, ReceivePubrel, HandlePubrel, server, options
  <2>2. open => Pubacks(outgoing') = Pubacks(outgoing)
    <3>1. Answer("pubcomp", id) \in AnswerPacket /\ Answer("pubcomp", id).type # "puback"
      BY DEF Answer, AnswerPacket, Answers
    <3>2. QED BY <1>1, <2>1, <3>1, AnswerWritten DEF SessionTypeOK
  <2>3. Cardinality(Pending') \in Nat /\ Cardinality(Pending') <= Cardinality(Pending)
    BY <1>2, <1>9, <2>1, TakesOne, PendingShrinks
  <2>4. NothingYet' /\ WindowHeld' /\ MaximumHeld' /\ NotAccused'
    BY <2>1 DEF WindowInv, NothingYet, WindowHeld, MaximumHeld, NotAccused, Generous
  <2>5. QuotaHeld'
    <3> SUFFICES ASSUME Generous, leaked = 0
                 PROVE  /\ open => receiveQuota + Pubacks(outgoing') >= announced
                        /\ ~open => Cardinality(Pending') <= receiveQuota
      BY <2>1 DEF QuotaHeld, Generous
    <3>1. /\ open => receiveQuota + Pubacks(outgoing) >= announced
          /\ ~open => Cardinality(Pending) <= receiveQuota
      BY <2>1 DEF WindowInv, QuotaHeld
    <3>2. QED BY <1>1, <1>2, <2>2, <2>3, <3>1
  <2>6. QED BY <2>4, <2>5 DEF WindowInv
<1>10. ASSUME NEW n \in 0 .. Len(toClient), toClient' = SubSeq(toClient, 1, n) PROVE Fewer(0)
  <2>1. /\ \A m : SentAt(m)' \subseteq SentAt(m)
        /\ \A id : RelAt(id)' \subseteq RelAt(id)
    BY <1>10, ClientLoses
  <2>2. /\ \A m : \A i \in SentAt(m) : i \in Nat /\ i + 0 = i
        /\ \A id : \A i \in RelAt(id) : i \in Nat /\ i + 0 = i
    BY ClientQueue
  <2>3. QED BY <2>1, <2>2 DEF Fewer
<1>11. ASSUME NEW n \in 0 .. Len(toClient), toClient' = SubSeq(toClient, 1, n), toClient = <<>>
       PROVE  toClient' = <<>>
  <2>1. n = 0
    BY <1>11, ClientQueue, EmptySeq
  <2>2. QED BY <1>11, <2>1, SubSeqEmpty
<1>12. ASSUME toClient' = toClient PROVE Pending' = {e \in exchanges' : SentAt(e.message) # {}}
  BY <1>12 DEF Pending, SentAt
<1>13. ASSUME ClientWrites PROVE WindowInv'
  <2>1. /\ outgoing # <<>> /\ toClient' = toClient /\ exchanges' = exchanges
        /\ UNCHANGED <<conn, receiveMaximum, announced, replaced, leaked, excess>>
        /\ \/ open' = FALSE /\ outgoing' = <<>> /\ receiveQuota' = receiveQuota
           \/ /\ Head(outgoing).type = "puback" /\ outgoing' = Tail(outgoing) /\ open' = open
              /\ Restore
           \/ /\ Head(outgoing).type # "puback" /\ outgoing' = Tail(outgoing) /\ open' = open
              /\ receiveQuota' = receiveQuota
    BY <1>13 DEF ClientWrites, WriteCompletes, server, options, history
  <2>2. conn = "connected"
    BY <2>1 DEF WindowInv, NothingYet
  <2>3. Pending' = Pending
    BY <1>12, <2>1 DEF Pending
  <2>4. NothingYet' /\ WindowHeld' /\ MaximumHeld' /\ NotAccused'
    BY <2>1, <2>2 DEF WindowInv, NothingYet, WindowHeld, MaximumHeld, NotAccused, Generous
  <2>5. Pubacks(outgoing) = Pubacks(Tail(outgoing)) + IF Head(outgoing).type = "puback" THEN 1 ELSE 0
    BY <2>1, RepliesType, PubackCount
  <2>6. Pubacks(Tail(outgoing)) \in Nat
    <3>1. Tail(outgoing) \in Seq(OutPacket)
      BY <2>1, RepliesType, HeadTailProperties
    <3>2. QED BY <3>1, PubackCount
  <2>7. QuotaHeld'
    <3> SUFFICES ASSUME Generous, leaked = 0
                 PROVE  /\ open' => receiveQuota' + Pubacks(outgoing') >= announced
                        /\ ~open' => Cardinality(Pending) <= receiveQuota'
      BY <2>1, <2>3 DEF QuotaHeld, Generous
    <3>1. /\ open => receiveQuota + Pubacks(outgoing) >= announced
          /\ Cardinality(Pending) <= receiveQuota
          /\ receiveMaximum >= announced
      BY <2>2, QuotaCovers DEF WindowInv, QuotaHeld, MaximumHeld, SidesInv
    <3>2. CASE open' = FALSE /\ outgoing' = <<>> /\ receiveQuota' = receiveQuota
      BY <3>1, <3>2
    <3>3. CASE /\ Head(outgoing).type = "puback" /\ outgoing' = Tail(outgoing) /\ open' = open
               /\ Restore
      <4>1. receiveQuota' = IF receiveQuota < receiveMaximum THEN receiveQuota + 1 ELSE receiveQuota
        BY <2>2, <3>3 DEF Restore
      <4>2. Pubacks(outgoing) = Pubacks(outgoing') + 1 /\ Pubacks(outgoing') \in Nat
        BY <2>5, <2>6, <3>3
      <4>3. QED BY <1>1, <1>2, <3>1, <3>3, <4>1, <4>2
    <3>4. CASE /\ Head(outgoing).type # "puback" /\ outgoing' = Tail(outgoing) /\ open' = open
               /\ receiveQuota' = receiveQuota
      <4>1. Pubacks(outgoing') = Pubacks(outgoing)
        BY <2>5, <2>6, <3>4
      <4>2. QED BY <3>1, <3>4, <4>1
    <3>5. QED BY <2>1, <3>2, <3>3, <3>4
  <2>8. QED BY <2>4, <2>7 DEF WindowInv
<1>14. ASSUME Disconnect PROVE WindowInv'
  <2>1. /\ ~open' /\ outgoing' = <<>> /\ exchanges' = exchanges
        /\ UNCHANGED <<conn, receiveMaximum, announced, replaced, receiveQuota, leaked, excess>>
        /\ \E n \in 0 .. Len(toClient) : toClient' = SubSeq(toClient, 1, n)
    BY <1>14 DEF Disconnect, Close, server, options, history
  <2>2. Cardinality(Pending') \in Nat /\ Cardinality(Pending') <= Cardinality(Pending)
    BY <1>2, <1>10, <2>1, PendingShrinks
  <2>3. NothingYet'
    BY <1>11, <2>1 DEF WindowInv, NothingYet
  <2>4. WindowHeld' /\ MaximumHeld' /\ NotAccused'
    BY <2>1 DEF WindowInv, WindowHeld, MaximumHeld, NotAccused, Generous
  <2>5. QuotaHeld'
    <3> SUFFICES ASSUME conn = "connected", Generous, leaked = 0
                 PROVE  Cardinality(Pending') <= receiveQuota
      BY <2>1 DEF QuotaHeld, Generous
    <3>1. Cardinality(Pending) <= receiveQuota
      BY QuotaCovers DEF SidesInv
    <3>2. QED BY <1>1, <1>2, <2>2, <3>1
  <2>6. QED BY <2>3, <2>4, <2>5 DEF WindowInv
<1>15. ASSUME NEW m \in ReceiveMaxima, Handshaker(m), UNCHANGED <<toClient, toServer, server>>
       PROVE  WindowInv'
  <2>1. /\ receiveMaximum' = m /\ m \in Nat
        /\ replaced' = IF conn = "idle" THEN replaced ELSE replaced \cup ({m} \ {announced})
        /\ UNCHANGED <<conn, open, announced, receiveQuota, outgoing, leaked, excess, exchanges, toClient>>
    BY <1>15, QuotaAssumption DEF Handshaker, history, server
  <2>2. Pending' = Pending
    BY <1>12, <2>1 DEF Pending
  <2>3. Generous' => Generous /\ (conn # "idle" => m >= announced)
    <3>1. replaced \subseteq replaced' /\ (conn # "idle" => m \in replaced' \/ m = announced)
      BY <2>1
    <3>2. QED BY <1>1, <2>1, <3>1 DEF Generous
  <2>4. NothingYet' /\ WindowHeld' /\ MaximumHeld'
    BY <2>1, <2>3 DEF WindowInv, NothingYet, WindowHeld, MaximumHeld
  <2>5. NotAccused'
    BY <2>1, <2>3 DEF WindowInv, NotAccused, Generous
  <2>6. QuotaHeld'
    BY <2>1, <2>2, <2>3 DEF WindowInv, QuotaHeld
  <2>7. QED BY <2>4, <2>5, <2>6 DEF WindowInv
<1>16. CASE \/ \E r \in Receivers : Subscribe(r) /\ UNCHANGED <<toClient, toServer, server>>
            \/ UNCHANGED sessionVars
  <2>1. UNCHANGED <<conn, open, receiveMaximum, announced, replaced, receiveQuota, outgoing,
                    leaked, excess, exchanges, toClient>>
    BY <1>16 DEF Subscribe, server, options, sessionVars, vars, history
  <2>2. Pending' = Pending
    BY <1>12, <2>1 DEF Pending
  <2>3. conn = "idle" => exchanges' = {} /\ toClient' = <<>>
    BY <2>1 DEF WindowInv, NothingYet
  <2>4. QED BY <1>1, <1>2, <2>1, <2>2, <2>3, WindowKept
<1>17. QED
  BY <1>3, <1>4, <1>5, <1>6, <1>7, <1>8, <1>9, <1>13, <1>14, <1>15, <1>16, SessionSteps
-----------------------------------------------------------------------------
(* The theorems *)

\* The inductive invariant of the session: the packets under way, what the
\* client keeps and has handed out, the exchanges of the server, the answers
\* under way and the quota fit together, in every reachable state.
THEOREM SessionInductive == SessionSpec => []SessionIInv
<1>1. SessionInit => SessionIInv
  <2> SUFFICES ASSUME SessionInit PROVE SessionIInv
    OBVIOUS
  <2>1. SessionTypeOK
    <3>1. TypeOK
      BY InitHolds DEF SessionInit, IInv
    <3>2. /\ toClient \in Seq(ServerPacket) /\ toServer \in Seq(AnswerPacket)
          /\ published \in Seq(Publication)
      BY EmptySeq DEF SessionInit
    <3>3. QED BY <3>1, <3>2 DEF SessionTypeOK, SessionInit
  <2>2. /\ Kept = {} /\ Handed = {} /\ exchanges = {} /\ Replies = <<>>
        /\ Len(published) = 0 /\ Len(stored) = 0 /\ DOMAIN delivered = {}
    <3>1. /\ stored = <<>> /\ delivered = <<>> /\ published = <<>> /\ exchanges = {}
          /\ toServer = <<>> /\ outgoing = <<>>
      BY DEF SessionInit, Init
    <3>2. \A m : m \notin Kept /\ m \notin Handed
      BY <2>1, <3>1, ListMembers, EmptySeq
    <3>3. Replies = <<>>
      BY <3>1, ConcatEmptySeq, EmptySeq DEF Replies
    <3>4. Len(published) = 0 /\ Len(stored) = 0 /\ Len(delivered) = 0
      BY <3>1, EmptySeq
    <3>5. DOMAIN delivered = {}
      BY <2>1, <3>4, ListMembers
    <3>6. QED BY <3>1, <3>2, <3>3, <3>4, <3>5
  <2>3. /\ \A m : SentAt(m) = {}
        /\ \A type, id : ReplyAt(type, id) = {}
    <3>1. toClient = <<>> /\ <<>> \in Seq({})
      BY EmptySeq DEF SessionInit
    <3>2. \A x : Positions(<<>>, x) = {}
      BY <3>1, PositionsProperties
    <3>3. QED BY <2>2, <3>1, <3>2 DEF SentAt, ReplyAt
  <2>4. MessageInv
    BY <2>2, <2>3 DEF MessageInv
  <2>5. ClientInv
    BY <2>2, <2>3 DEF ClientInv, KeptUnhanded, StoredApart, HandedGone, ReleasedFirst, Qos2Once
  <2>6. ExchangeInv
    BY <2>2, <2>3 DEF ExchangeInv, OneExchange, StagesKept, SentKnown, SentOnce, SentAfresh, Remembered
  <2>7. ReplyInv
    BY <2>2, <2>3 DEF ReplyInv, KeptKnown, RecKnown, AckKnown, AckOnce, AckAfter, RecOfSent, CompOfReleased
  <2>8. WindowInv
    <3>1. /\ conn = "idle" /\ outgoing = <<>> /\ leaked = 0 /\ excess = 0 /\ toClient = <<>>
          /\ replaced = {} /\ announced \in Nat
      BY QuotaAssumption DEF SessionInit, Init
    <3>2. IsFiniteSet(exchanges) /\ Cardinality(exchanges) <= announced
      BY <2>2, <3>1, FS_EmptySet
    <3>3. QED BY <2>2, <3>1, <3>2
              DEF WindowInv, NothingYet, WindowHeld, MaximumHeld, QuotaHeld, NotAccused
  <2>9. QED BY <2>1, <2>4, <2>5, <2>6, <2>7, <2>8 DEF SessionIInv
<1>2. SessionIInv /\ [SessionNext]_sessionVars => SessionIInv'
  <2> SUFFICES ASSUME SessionIInv, [SessionNext]_sessionVars PROVE SessionIInv'
    OBVIOUS
  <2>1. SessionTypeOK /\ MessageInv /\ SidesInv /\ WindowInv
    BY DEF SessionIInv, SidesInv
  <2>2. SessionTypeOK'
    BY <2>1, SessionTypeStep
  <2>3. MessageInv'
    BY <2>1, MessageStep DEF SidesInv
  <2>4. SidesInv'
    BY <2>1, <2>2, SidesStep
  <2>5. WindowInv'
    BY <2>1, <2>2, WindowStep
  <2>6. QED BY <2>2, <2>3, <2>4, <2>5 DEF SessionIInv, SidesInv
<1>3. QED BY <1>1, <1>2, PTL DEF SessionSpec

\* A QoS 2 message is handed to the waiters at most once, however often its
\* PUBLISH and its PUBREL arrive, and whenever the connection is closed.
THEOREM Qos2Correct == SessionSpec => []Qos2Once
<1>1. SessionIInv => Qos2Once
  BY DEF SessionIInv, ClientInv
<1>2. QED BY <1>1, SessionInductive, PTL

\* The server forgets no message that the client has not handed on.
THEOREM AcknowledgedCorrect == SessionSpec => []AcknowledgedMeansDelivered
<1>1. SessionIInv => AcknowledgedMeansDelivered
  <2> SUFFICES ASSUME SessionIInv PROVE AcknowledgedMeansDelivered
    OBVIOUS
  <2>1. SessionTypeOK /\ Remembered
    BY DEF SessionIInv, ExchangeInv
  <2>2. DOMAIN published = 1 .. Len(published)
    BY <2>1, LenProperties DEF SessionTypeOK
  <2>3. \A m \in Handed : \E j \in DOMAIN delivered : delivered[j] = m
    BY <2>1, ListMembers
  <2>4. QED BY <2>1, <2>2, <2>3 DEF Remembered, AcknowledgedMeansDelivered
<1>2. QED BY <1>1, SessionInductive, PTL

\* A server that keeps within the receive maximum it was told of is never told
\* that it did not.
THEOREM AccusedCorrect == SessionSpec => []NotAccused
<1>1. SessionIInv => NotAccused
  BY DEF SessionIInv, WindowInv
<1>2. QED BY <1>1, SessionInductive, PTL
=============================================================================
