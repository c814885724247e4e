--------------------------- MODULE RequestsProofs ---------------------------
(***************************************************************************)
(* Proofs about Requests, for any number of identifiers, requests and      *)
(* publishes.                                                              *)
(***************************************************************************)
EXTENDS Requests, SequenceLemmas, FiniteSetTheorems

ConnackPacket == [kind |-> "connack"]

TypeOK ==
    /\ connected \in BOOLEAN /\ open \in BOOLEAN
    /\ nextId \in 1 .. U16Max
    /\ inflight \in [Kinds -> Seq(Request)]
    /\ toServer \in Seq(Request)
    /\ toClient \in Seq(Request \cup {ConnackPacket})
    /\ due \subseteq Request
    /\ drawn \in Nat
    /\ made \in Seq([kind : Kinds, drawn : Nat])
    /\ answered \in Seq(BOOLEAN)
    /\ Len(answered) = Len(made) /\ Len(made) <= MaxRequests

\* Every request and every answer there is a trace of.
Known ==
    ToSet(inflight["subscribe"]) \cup ToSet(inflight["unsubscribe"])
        \cup ToSet(toServer) \cup due \cup (ToSet(toClient) \ {ConnackPacket})

\* The identifier drawn so long ago, counting back from the next one, which is 1
\* after U16Max.
IsDrawn(id, ago, next) == id = IF ago < next THEN next - ago ELSE next - ago + U16Max

\* When a request was made, and which identifier it drew.
MadeInv ==
    /\ \A n \in 1 .. Len(made) : made[n].drawn < drawn
    /\ \A n, m \in 1 .. Len(made) : n < m => made[n].drawn < made[m].drawn
    /\ \A r \in Known :
        /\ r.op \in 1 .. Len(made)
        /\ r.kind = made[r.op].kind
        /\ drawn - made[r.op].drawn <= U16Max =>
            IsDrawn(r.id, drawn - made[r.op].drawn, nextId)

\* Fewer draws apart than there are identifiers, two requests differ in theirs.
IdInv ==
    \A r, s \in Known :
        LET apart == made[r.op].drawn - made[s.op].drawn IN
        0 < apart /\ apart < U16Max => r.id # s.id

\* The lists hold the requests of their kind without an answer, oldest first.
HeldInv ==
    /\ \A kind \in Kinds : \A i \in 1 .. Len(inflight[kind]) :
        made[inflight[kind][i].op].kind = kind /\ ~answered[inflight[kind][i].op]
    /\ \A kind \in Kinds : \A i, j \in 1 .. Len(inflight[kind]) :
        i < j => inflight[kind][i].op < inflight[kind][j].op
    /\ \A n \in 1 .. Len(made) :
        ~answered[n] => \E i \in 1 .. Len(inflight[made[n].kind]) : inflight[made[n].kind][i].op = n

IInv == TypeOK /\ MadeInv /\ IdInv /\ HeldInv
-----------------------------------------------------------------------------
(* Identifiers *)

LEMMA DrawProperties ==
    ASSUME nextId \in 1 .. U16Max, Draw
    PROVE  /\ nextId' \in 1 .. U16Max
           /\ IsDrawn(nextId, 1, nextId')
           /\ \A id, ago \in Nat :
                ago < U16Max /\ IsDrawn(id, ago, nextId) => IsDrawn(id, ago + 1, nextId')
BY U16MaxAssumption DEF Draw, IsDrawn

\* An identifier drawn since is another one.
LEMMA DrawnDiffers ==
    ASSUME nextId \in 1 .. U16Max, NEW id \in Nat, NEW ago \in Nat, 0 < ago, ago < U16Max,
           IsDrawn(id, ago, nextId)
    PROVE  id # nextId
BY U16MaxAssumption DEF IsDrawn

LEMMA KnownRequests ==
    ASSUME TypeOK
    PROVE  Known \subseteq Request
<1>1. \A kind \in Kinds : ToSet(inflight[kind]) \subseteq Request
  <2> TAKE kind \in Kinds
  <2>1. inflight[kind] \in Seq(Request)
    BY DEF TypeOK
  <2>2. QED BY <2>1, ToSetMembers
<1>2. ToSet(toServer) \subseteq Request
  BY ToSetMembers DEF TypeOK
<1>3. ToSet(toClient) \subseteq Request \cup {ConnackPacket}
  <2>1. toClient \in Seq(Request \cup {ConnackPacket})
    BY DEF TypeOK
  <2>2. QED BY <2>1, ToSetMembers
<1>4. due \subseteq Request
  BY DEF TypeOK
<1>5. QED BY <1>1, <1>2, <1>3, <1>4 DEF Known, Kinds

\* A step that draws nothing and makes no new request or answer.
LEMMA NothingDrawn ==
    ASSUME MadeInv, IdInv, Known' \subseteq Known, UNCHANGED <<nextId, drawn, made>>
    PROVE  MadeInv' /\ IdInv'
BY DEF MadeInv, IdInv

LEMMA NoAnswerHandled ==
    ASSUME HeldInv, UNCHANGED <<inflight, made, answered>>
    PROVE  HeldInv'
BY DEF HeldInv
-----------------------------------------------------------------------------
(* Preservation, one lemma per action *)

LEMMA DrawForPublishStep ==
    ASSUME IInv, DrawForPublish
    PROVE  IInv'
<1>1. /\ drawn' = drawn + 1 /\ Draw
      /\ UNCHANGED <<connected, open, inflight, toServer, toClient, due, made, answered>>
  BY DEF DrawForPublish
<1>2. drawn \in Nat /\ nextId \in 1 .. U16Max
  BY DEF IInv, TypeOK
<1>3. TypeOK'
  BY <1>1, <1>2, DrawProperties DEF IInv, TypeOK
<1>4. Known' = Known
  BY <1>1 DEF Known
<1>5. MadeInv'
  <2>1. \A n \in 1 .. Len(made) : made[n].drawn \in Nat /\ made[n].drawn < drawn
    <3> TAKE n \in 1 .. Len(made)
    <3>1. made[n] \in [kind : Kinds, drawn : Nat]
      BY ElementOfSeq DEF IInv, TypeOK
    <3>2. QED BY <3>1 DEF IInv, MadeInv
  <2>2. ASSUME NEW r \in Known PROVE
        /\ r.op \in 1 .. Len(made)
        /\ r.kind = made[r.op].kind
        /\ drawn' - made'[r.op].drawn <= U16Max =>
             IsDrawn(r.id, drawn' - made'[r.op].drawn, nextId')
    <3>1. r.op \in 1 .. Len(made) /\ r.kind = made[r.op].kind
      BY DEF IInv, MadeInv
    <3>2. r.id \in Nat
      BY KnownRequests DEF IInv, Request
    <3> DEFINE ago == drawn - made[r.op].drawn
    <3>3. ago \in Nat /\ drawn' - made'[r.op].drawn = ago + 1
      <4>1. drawn' = drawn + 1 /\ made' = made
        BY <1>1
      <4>2. made[r.op].drawn \in Nat /\ made[r.op].drawn < drawn
        BY <2>1, <3>1
      <4>3. QED BY <1>2, <4>1, <4>2
    <3>4. ago <= U16Max => IsDrawn(r.id, ago, nextId)
      BY DEF IInv, MadeInv
    <3> HIDE DEF ago
    <3>5. ago + 1 <= U16Max => ago < U16Max /\ ago <= U16Max
      BY <3>3, U16MaxAssumption
    <3>6. ago + 1 <= U16Max => IsDrawn(r.id, ago + 1, nextId')
      BY <1>1, <1>2, <3>2, <3>3, <3>4, <3>5, DrawProperties
    <3>7. QED BY <3>1, <3>3, <3>6
  <2>3. \A n \in 1 .. Len(made) : made[n].drawn < drawn + 1
    BY <1>2, <2>1
  <2>4. \A n, m \in 1 .. Len(made) : n < m => made[n].drawn < made[m].drawn
    BY DEF IInv, MadeInv
  <2>5. QED BY <1>1, <1>4, <2>2, <2>3, <2>4 DEF MadeInv
<1>6. IdInv' /\ HeldInv'
  BY <1>1, <1>4 DEF IInv, IdInv, HeldInv
<1>7. QED BY <1>3, <1>5, <1>6 DEF IInv

LEMMA StartStep ==
    ASSUME IInv, NEW kind \in Kinds, Start(kind)
    PROVE  IInv'
<1> DEFINE request == [kind |-> kind, op |-> Len(made) + 1, id |-> nextId]
           entry == [kind |-> kind, drawn |-> drawn]
           last == Len(made) + 1
<1>1. /\ drawn' = drawn + 1 /\ Draw
      /\ made' = Append(made, entry) /\ answered' = Append(answered, FALSE)
      /\ toServer' \in {toServer, Append(toServer, request)}
      /\ inflight' = [inflight EXCEPT ![kind] = Append(@, request)]
      /\ UNCHANGED <<connected, open, toClient, due>>
      /\ Len(made) < MaxRequests
  BY DEF Start
<1>2. /\ drawn \in Nat /\ nextId \in 1 .. U16Max /\ Len(made) \in Nat
      /\ made \in Seq([kind : Kinds, drawn : Nat]) /\ answered \in Seq(BOOLEAN)
      /\ Len(answered) = Len(made)
  BY LenProperties DEF IInv, TypeOK
<1>3. request \in Request
  BY <1>1, <1>2, BoundsAssumption DEF Request
<1>4. entry \in [kind : Kinds, drawn : Nat] /\ entry.kind = kind /\ entry.drawn = drawn
      /\ request.kind = kind /\ request.op = last /\ request.id = nextId
  BY <1>2
<1> HIDE DEF request, entry
<1>5. /\ made' \in Seq([kind : Kinds, drawn : Nat]) /\ Len(made') = last
      /\ made'[last] = entry
      /\ \A n \in 1 .. Len(made) : made'[n] = made[n]
  BY <1>1, <1>2, <1>4, AppendProperties
<1>6. /\ answered' \in Seq(BOOLEAN) /\ Len(answered') = last
      /\ ~answered'[last]
      /\ \A n \in 1 .. Len(made) : answered'[n] = answered[n]
  <2> DEFINE no == FALSE
             new == Append(answered, no)
  <2>1. no \in BOOLEAN
    OBVIOUS
  <2> HIDE DEF no
  <2>2. /\ new \in Seq(BOOLEAN) /\ Len(new) = Len(answered) + 1
        /\ new[Len(answered) + 1] = no
        /\ \A n \in 1 .. Len(answered) : new[n] = answered[n]
    BY <1>2, <2>1, AppendProperties
  <2> HIDE DEF new
  <2>3. answered' = new
    BY <1>1 DEF new, no
  <2>4. ~new[last]
    BY <1>2, <2>2 DEF no
  <2>5. QED BY <1>2, <2>2, <2>3, <2>4
<1>7. /\ inflight[kind] \in Seq(Request)
      /\ Append(inflight[kind], request) \in Seq(Request)
      /\ ToSet(Append(inflight[kind], request)) = ToSet(inflight[kind]) \cup {request}
  BY <1>3, ToSetProperties DEF IInv, TypeOK
<1>8. toServer' \in Seq(Request) /\ ToSet(toServer') \subseteq ToSet(toServer) \cup {request}
  <2>1. toServer \in Seq(Request)
    BY DEF IInv, TypeOK
  <2>2. /\ Append(toServer, request) \in Seq(Request)
        /\ ToSet(Append(toServer, request)) = ToSet(toServer) \cup {request}
    BY <1>3, <2>1, ToSetProperties
  <2>3. CASE toServer' = toServer
    BY <2>1, <2>3
  <2>4. CASE toServer' = Append(toServer, request)
    BY <2>2, <2>4
  <2>5. QED BY <1>1, <2>3, <2>4
<1>9. /\ inflight'[kind] = Append(inflight[kind], request)
      /\ \A k \in Kinds : k # kind => inflight'[k] = inflight[k]
      /\ inflight' \in [Kinds -> Seq(Request)]
  BY <1>1, <1>7 DEF IInv, TypeOK
<1>10. TypeOK'
  <2>1. nextId' \in 1 .. U16Max /\ drawn' \in Nat
    BY <1>1, <1>2, DrawProperties
  <2>2. Len(made') <= MaxRequests
    BY <1>1, <1>2, <1>5, BoundsAssumption
  <2>3. UNCHANGED <<connected, open, toClient, due>>
    BY <1>1
  <2>4. QED BY <1>5, <1>6, <1>8, <1>9, <2>1, <2>2, <2>3 DEF IInv, TypeOK
<1>11. Known' \subseteq Known \cup {request}
  <2>1. \A k \in Kinds : ToSet(inflight'[k]) \subseteq ToSet(inflight[k]) \cup {request}
    BY <1>7, <1>9
  <2>2. UNCHANGED <<toClient, due>>
    BY <1>1
  <2>3. QED BY <1>8, <2>1, <2>2 DEF Known, Kinds
<1>12. \A n \in 1 .. Len(made) : made[n].drawn \in Nat /\ made[n].drawn < drawn
  <2> TAKE n \in 1 .. Len(made)
  <2>1. made[n] \in [kind : Kinds, drawn : Nat]
    BY ElementOfSeq DEF IInv, TypeOK
  <2>2. QED BY <2>1 DEF IInv, MadeInv
<1>13. \A n \in 1 .. last : n \in 1 .. Len(made) \/ n = last
  BY <1>2
<1>14. \A r \in Known : /\ r.op \in 1 .. Len(made) /\ r.id \in Nat
                        /\ made'[r.op] = made[r.op] /\ answered'[r.op] = answered[r.op]
                        /\ r.kind = made[r.op].kind
                        /\ drawn - made[r.op].drawn <= U16Max =>
                             IsDrawn(r.id, drawn - made[r.op].drawn, nextId)
  BY <1>5, <1>6, KnownRequests DEF IInv, MadeInv, Request
<1>15. MadeInv'
  <2>1. \A n \in 1 .. Len(made') : made'[n].drawn < drawn'
    <3> SUFFICES ASSUME NEW n \in 1 .. last PROVE made'[n].drawn < drawn + 1
      BY <1>1, <1>5
    <3>1. CASE n \in 1 .. Len(made)
      BY <1>2, <1>5, <1>12, <3>1
    <3>2. CASE n = last
      BY <1>2, <1>4, <1>5, <3>2
    <3>3. QED BY <1>13, <3>1, <3>2
  <2>2. \A n, m \in 1 .. Len(made') : n < m => made'[n].drawn < made'[m].drawn
    <3> SUFFICES ASSUME NEW n \in 1 .. last, NEW m \in 1 .. last, n < m
                 PROVE  made'[n].drawn < made'[m].drawn
      BY <1>5
    <3>1. n \in 1 .. Len(made)
      BY <1>2
    <3>2. CASE m \in 1 .. Len(made)
      BY <1>5, <3>1, <3>2 DEF IInv, MadeInv
    <3>3. CASE m = last
      BY <1>4, <1>5, <1>12, <3>1, <3>3
    <3>4. QED BY <1>13, <3>2, <3>3
  <2>3. ASSUME NEW r \in Known
        PROVE  /\ r.op \in 1 .. Len(made')
               /\ r.kind = made'[r.op].kind
               /\ drawn' - made'[r.op].drawn <= U16Max =>
                    IsDrawn(r.id, drawn' - made'[r.op].drawn, nextId')
    <3> DEFINE ago == drawn - made[r.op].drawn
    <3>1. ago \in Nat /\ drawn' - made'[r.op].drawn = ago + 1
      <4>1. made'[r.op].drawn = made[r.op].drawn /\ made[r.op].drawn \in Nat /\ made[r.op].drawn < drawn
        BY <1>12, <1>14
      <4>2. drawn' = drawn + 1 /\ drawn \in Nat
        BY <1>1, <1>2
      <4> DEFINE then == made[r.op].drawn
      <4>3. then \in Nat /\ then < drawn /\ made'[r.op].drawn = then
        BY <4>1
      <4> HIDE DEF then
      <4>4. drawn - then \in Nat /\ drawn' - then = (drawn - then) + 1
        BY <4>2, <4>3
      <4>5. ago = drawn - then
        BY DEF then
      <4>6. QED BY <4>3, <4>4, <4>5
    <3>2. ago <= U16Max => IsDrawn(r.id, ago, nextId)
      BY <1>14
    <3> HIDE DEF ago
    <3>3. ago + 1 <= U16Max => ago < U16Max /\ ago <= U16Max
      BY <3>1, U16MaxAssumption
    <3>4. ago + 1 <= U16Max => IsDrawn(r.id, ago + 1, nextId')
      BY <1>1, <1>2, <1>14, <3>1, <3>2, <3>3, DrawProperties
    <3>5. r.op \in 1 .. Len(made')
      BY <1>2, <1>5, <1>14
    <3>6. QED BY <1>14, <3>1, <3>4, <3>5
  <2>4. /\ request.op \in 1 .. Len(made')
        /\ request.kind = made'[request.op].kind
        /\ IsDrawn(request.id, drawn' - made'[request.op].drawn, nextId')
    <3>1. drawn' - made'[request.op].drawn = 1
      BY <1>1, <1>2, <1>4, <1>5
    <3>2. IsDrawn(request.id, 1, nextId')
      BY <1>1, <1>2, <1>4, DrawProperties
    <3>3. request.op \in 1 .. Len(made')
      BY <1>2, <1>4, <1>5
    <3>4. QED BY <1>4, <1>5, <3>1, <3>2, <3>3
  <2>5. QED BY <1>11, <2>1, <2>2, <2>3, <2>4 DEF MadeInv
<1>16. IdInv'
  <2> SUFFICES ASSUME NEW r \in Known', NEW s \in Known',
                      0 < made'[r.op].drawn - made'[s.op].drawn,
                      made'[r.op].drawn - made'[s.op].drawn < U16Max
               PROVE  r.id # s.id
    BY DEF IdInv
  <2>1. CASE r \in Known /\ s \in Known
    BY <1>14, <2>1 DEF IInv, IdInv
  <2>2. CASE r = request /\ s \in Known
    <3> DEFINE ago == drawn - made[s.op].drawn
    <3>1. made'[r.op].drawn - made'[s.op].drawn = ago
      BY <1>4, <1>5, <1>14, <2>2
    <3>2. ago \in Nat /\ (ago <= U16Max => IsDrawn(s.id, ago, nextId))
      BY <1>2, <1>12, <1>14, <2>2
    <3> HIDE DEF ago
    <3>3. 0 < ago /\ ago < U16Max /\ ago <= U16Max
      BY <3>1, <3>2, U16MaxAssumption
    <3>4. s.id # nextId
      BY <1>2, <1>14, <2>2, <3>2, <3>3, DrawnDiffers
    <3>5. QED BY <1>4, <2>2, <3>4
  <2>3. CASE s = request
    <3>1. made'[s.op].drawn = drawn
      BY <1>4, <1>5, <2>3
    <3>2. made'[r.op].drawn \in Nat /\ made'[r.op].drawn <= drawn
      BY <1>2, <1>4, <1>5, <1>11, <1>12, <1>14
    <3>3. QED BY <1>2, <3>1, <3>2
  <2>4. QED BY <1>11, <2>1, <2>2, <2>3
<1>17. HeldInv'
  <2> DEFINE list == inflight[kind]
             list1 == inflight'[kind]
  <2>1. /\ Len(list) \in Nat /\ Len(list1) = Len(list) + 1
        /\ \A i \in 1 .. Len(list) : list1[i] = list[i]
        /\ list1[Len(list) + 1] = request
    BY <1>3, <1>7, <1>9, AppendProperties, LenProperties
  <2>2. \A k \in Kinds : \A i \in 1 .. Len(inflight[k]) : inflight[k][i] \in Known
    <3> TAKE k \in Kinds
    <3> TAKE i \in 1 .. Len(inflight[k])
    <3>1. inflight[k] \in Seq(Request)
      BY DEF IInv, TypeOK
    <3>2. inflight[k][i] \in ToSet(inflight[k])
      BY <3>1, ToSetMembers
    <3>3. QED BY <3>2 DEF Known, Kinds
  <2>3. \A i \in 1 .. Len(list1) : i \in 1 .. Len(list) \/ i = Len(list) + 1
    BY <2>1
  <2> HIDE DEF list, list1
  <2>4. ASSUME NEW k \in Kinds, NEW i \in 1 .. Len(inflight'[k])
        PROVE  made'[inflight'[k][i].op].kind = k /\ ~answered'[inflight'[k][i].op]
    <3>1. CASE k # kind
      BY <1>9, <1>14, <2>2, <2>4, <3>1 DEF IInv, HeldInv
    <3>2. CASE k = kind /\ i \in 1 .. Len(list)
      <4>1. list1[i] = inflight[k][i] /\ inflight[k][i] \in Known
        BY <2>1, <2>2, <3>2 DEF list
      <4>2. made[list1[i].op].kind = k /\ ~answered[list1[i].op]
        BY <3>2, <4>1 DEF list, IInv, HeldInv
      <4>3. QED BY <1>14, <3>2, <4>1, <4>2 DEF list1
    <3>3. CASE k = kind /\ i = Len(list) + 1
      BY <1>4, <1>5, <1>6, <2>1, <3>3 DEF list1
    <3>4. QED BY <2>3, <2>4, <3>1, <3>2, <3>3 DEF list1
  <2>5. ASSUME NEW k \in Kinds, NEW i \in 1 .. Len(inflight'[k]), NEW j \in 1 .. Len(inflight'[k]), i < j
        PROVE  inflight'[k][i].op < inflight'[k][j].op
    <3>1. CASE k # kind
      BY <1>9, <2>5, <3>1 DEF IInv, HeldInv
    <3>2. CASE k = kind
      <4>1. i \in 1 .. Len(list) /\ (j \in 1 .. Len(list) \/ j = Len(list) + 1)
        BY <2>1, <2>3, <2>5, <3>2 DEF list1
      <4>2. CASE j \in 1 .. Len(list)
        BY <2>1, <2>5, <3>2, <4>1, <4>2 DEF list, list1, IInv, HeldInv
      <4>3. CASE j = Len(list) + 1
        <5>1. list[i].op \in 1 .. Len(made)
          BY <1>14, <2>2, <3>2, <4>1 DEF list
        <5>2. list1[i].op < last
          BY <1>2, <2>1, <4>1, <5>1
        <5>3. QED BY <1>4, <2>1, <3>2, <4>3, <5>2 DEF list1
      <4>4. QED BY <4>1, <4>2, <4>3
    <3>3. QED BY <3>1, <3>2
  <2>6. ASSUME NEW n \in 1 .. Len(made'), ~answered'[n]
        PROVE  \E i \in 1 .. Len(inflight'[made'[n].kind]) : inflight'[made'[n].kind][i].op = n
    <3>1. CASE n = last
      <4>1. Len(list) + 1 \in 1 .. Len(list1) /\ list1[Len(list) + 1].op = n /\ made'[n].kind = kind
        BY <1>4, <1>5, <2>1, <3>1
      <4>2. QED BY <4>1 DEF list1
    <3>2. CASE n \in 1 .. Len(made)
      <4>1. made'[n] = made[n] /\ ~answered[n] /\ made[n] \in [kind : Kinds, drawn : Nat]
        BY <1>2, <1>5, <1>6, <2>6, <3>2, ElementOfSeq
      <4>2. PICK i \in 1 .. Len(inflight[made[n].kind]) : inflight[made[n].kind][i].op = n
        BY <3>2, <4>1 DEF IInv, HeldInv
      <4>3. CASE made[n].kind # kind
        BY <1>9, <4>1, <4>2, <4>3
      <4>4. CASE made[n].kind = kind
        <5>1. i \in 1 .. Len(list) /\ list[i].op = n
          BY <4>2, <4>4 DEF list
        <5>2. i \in 1 .. Len(list1) /\ list1[i].op = n
          BY <2>1, <5>1
        <5>3. QED BY <4>1, <4>4, <5>2 DEF list1
      <4>5. QED BY <4>3, <4>4
    <3>3. QED BY <1>5, <1>13, <2>6, <3>1, <3>2
  <2>7. QED BY <2>4, <2>5, <2>6 DEF HeldInv
<1>18. QED BY <1>10, <1>15, <1>16, <1>17 DEF IInv

\* The entry that Find finds.
LEMMA FoundProperties ==
    ASSUME IInv, NEW kind \in Kinds, NEW id, NEW i \in Find(inflight[kind], id)
    PROVE  /\ inflight[kind] \in Seq(Request)
           /\ i \in 1 .. Len(inflight[kind])
           /\ inflight[kind][i] \in Request /\ inflight[kind][i] \in Known
           /\ inflight[kind][i].op \in 1 .. Len(made)
           /\ inflight[kind][i].id = id
           /\ made[inflight[kind][i].op].kind = kind
           /\ ~answered[inflight[kind][i].op]
<1>1. inflight[kind] \in Seq(Request)
  BY DEF IInv, TypeOK
<1>2. i \in 1 .. Len(inflight[kind]) /\ inflight[kind][i].id = id
  BY <1>1, LenProperties DEF Find
<1>3. inflight[kind][i] \in ToSet(inflight[kind]) /\ inflight[kind][i] \in Request
  BY <1>1, <1>2, ToSetMembers
<1>4. inflight[kind][i] \in Known
  BY <1>3 DEF Known, Kinds
<1>5. inflight[kind][i].op \in 1 .. Len(made)
  BY <1>4 DEF IInv, MadeInv
<1>6. made[inflight[kind][i].op].kind = kind /\ ~answered[inflight[kind][i].op]
  BY <1>2 DEF IInv, HeldInv
<1>7. QED BY <1>1, <1>2, <1>3, <1>4, <1>5, <1>6

\* What an answer that finds its entry changes.
LEMMA FinishStep ==
    ASSUME IInv, NEW kind \in Kinds, NEW id, NEW i \in Find(inflight[kind], id), Finish(kind, i),
           UNCHANGED made
    PROVE  /\ inflight' \in [Kinds -> Seq(Request)]
           /\ \A k \in Kinds : ToSet(inflight'[k]) \subseteq ToSet(inflight[k])
           /\ answered' \in Seq(BOOLEAN) /\ Len(answered') = Len(answered)
           /\ \A n \in 1 .. Len(answered) :
                answered'[n] <=> (n = inflight[kind][i].op \/ answered[n])
           /\ HeldInv'
<1> DEFINE list == inflight[kind]
           list1 == inflight'[kind]
           op == list[i].op
<1>1. /\ list \in Seq(Request) /\ i \in 1 .. Len(list) /\ list[i] \in Request
      /\ op \in 1 .. Len(made) /\ made[op].kind = kind
  BY FoundProperties
<1>2. /\ answered' = [answered EXCEPT ![op] = TRUE]
      /\ inflight' = [inflight EXCEPT ![kind] = RemoveAt(@, i)]
  BY DEF Finish
<1>3. /\ RemoveAt(list, i) \in Seq(Request) /\ ToSet(RemoveAt(list, i)) \subseteq ToSet(list)
      /\ Len(RemoveAt(list, i)) = Len(list) - 1
      /\ \A j \in 1 .. Len(list) - 1 : RemoveAt(list, i)[j] = IF j < i THEN list[j] ELSE list[j + 1]
  BY <1>1, RemoveAtProperties, ToSetProperties
<1>4. /\ list1 = RemoveAt(list, i)
      /\ \A k \in Kinds : k # kind => inflight'[k] = inflight[k]
      /\ inflight' \in [Kinds -> Seq(Request)]
  BY <1>2, <1>3 DEF IInv, TypeOK
<1>5. \A k \in Kinds : ToSet(inflight'[k]) \subseteq ToSet(inflight[k])
  BY <1>3, <1>4
<1>6. answered \in Seq(BOOLEAN) /\ Len(answered) = Len(made) /\ Len(made) \in Nat
  BY LenProperties DEF IInv, TypeOK
<1>7. /\ answered' \in Seq(BOOLEAN) /\ Len(answered') = Len(answered)
      /\ \A n \in 1 .. Len(answered) : answered'[n] <=> (n = op \/ answered[n])
  <2> DEFINE yes == TRUE
             new == [answered EXCEPT ![op] = yes]
  <2>1. yes \in BOOLEAN
    OBVIOUS
  <2> HIDE DEF yes, op
  <2>2. /\ new \in Seq(BOOLEAN) /\ Len(new) = Len(answered)
        /\ \A n \in 1 .. Len(answered) : new[n] = IF n = op THEN yes ELSE answered[n]
    BY <1>1, <1>6, <2>1, ExceptSeq DEF op
  <2> HIDE DEF new
  <2>3. answered' = new
    BY <1>2 DEF new, yes
  <2>4. \A n \in 1 .. Len(answered) : new[n] <=> (n = op \/ answered[n])
    BY <2>2 DEF yes
  <2>5. QED BY <2>2, <2>3, <2>4
<1>8. /\ Len(list) \in Nat /\ Len(list1) = Len(list) - 1
      /\ \A j \in 1 .. Len(list1) : list1[j] = IF j < i THEN list[j] ELSE list[j + 1]
  BY <1>1, <1>3, <1>4, LenProperties
<1> HIDE DEF list, list1
\* where an entry of the new list was in the old one
<1> DEFINE Was(j) == IF j < i THEN j ELSE j + 1
<1>9. \A j \in 1 .. Len(list1) :
        Was(j) \in 1 .. Len(list) /\ Was(j) # i /\ list1[j] = list[Was(j)]
  BY <1>1, <1>8
<1>10. \A j, k \in 1 .. Len(list1) : j < k => Was(j) < Was(k)
  BY <1>1, <1>8
<1>11. \A j \in 1 .. Len(list) : j # i => \E k \in 1 .. Len(list1) : Was(k) = j
  <2> SUFFICES ASSUME NEW j \in 1 .. Len(list), j # i
               PROVE  \E k \in 1 .. Len(list1) : Was(k) = j
    OBVIOUS
  <2>1. CASE j < i
    BY <1>1, <1>8, <2>1
  <2>2. CASE j > i
    <3>1. j - 1 \in 1 .. Len(list1) /\ Was(j - 1) = j
      BY <1>1, <1>8, <2>2
    <3>2. QED BY <3>1
  <2>3. QED BY <1>1, <1>8, <2>1, <2>2
<1> HIDE DEF Was
<1>12. \A j, k \in 1 .. Len(list) : j < k => list[j].op < list[k].op
  BY DEF list, IInv, HeldInv
<1>13. \A j \in 1 .. Len(list) : list[j] \in Request
  BY <1>1, ElementOfSeq
<1>14. \A j \in 1 .. Len(list) : j # i => list[j].op # op
  <2> SUFFICES ASSUME NEW j \in 1 .. Len(list), j # i PROVE list[j].op # op
    OBVIOUS
  <2>1. list[j].op \in Nat /\ op \in Nat
    BY <1>1, <1>13, BoundsAssumption DEF Request
  <2>2. list[j].op < op \/ op < list[j].op
    BY <1>1, <1>8, <1>12
  <2>3. QED BY <2>1, <2>2
<1>15. \A k \in Kinds : \A j \in 1 .. Len(inflight[k]) : inflight[k][j].op \in 1 .. Len(answered)
  <2> TAKE k \in Kinds
  <2> TAKE j \in 1 .. Len(inflight[k])
  <2>1. inflight[k] \in Seq(Request)
    BY DEF IInv, TypeOK
  <2>2. inflight[k][j] \in ToSet(inflight[k])
    BY <2>1, ToSetMembers
  <2>3. inflight[k][j] \in Known
    BY <2>2 DEF Known, Kinds
  <2>4. QED BY <1>6, <2>3 DEF IInv, MadeInv
<1>16. ASSUME NEW k \in Kinds, NEW j \in 1 .. Len(inflight'[k])
       PROVE  made'[inflight'[k][j].op].kind = k /\ ~answered'[inflight'[k][j].op]
  <2>1. CASE k = kind
    <3>1. j \in 1 .. Len(list1)
      BY <1>16, <2>1 DEF list1
    <3>2. Was(j) \in 1 .. Len(list) /\ Was(j) # i /\ list1[j] = list[Was(j)]
      BY <1>9, <3>1
    <3>3. made[list1[j].op].kind = k /\ ~answered[list1[j].op] /\ list1[j].op \in 1 .. Len(answered)
      BY <1>15, <2>1, <3>2 DEF list, IInv, HeldInv
    <3>4. list1[j].op # op
      BY <1>14, <3>2
    <3>5. ~answered'[list1[j].op]
      BY <1>7, <3>3, <3>4
    <3>6. QED BY <2>1, <3>3, <3>5 DEF list1
  <2>2. CASE k # kind
    <3>1. inflight'[k] = inflight[k] /\ inflight[k][j].op \in 1 .. Len(answered)
      BY <1>4, <1>15, <1>16, <2>2
    <3>2. made[inflight[k][j].op].kind = k /\ ~answered[inflight[k][j].op]
      BY <1>16, <3>1 DEF IInv, HeldInv
    <3>3. inflight[k][j].op # op
      BY <1>1, <2>2, <3>2
    <3>4. ~answered'[inflight[k][j].op]
      BY <1>7, <3>1, <3>2, <3>3
    <3>5. QED BY <3>1, <3>2, <3>4
  <2>3. QED BY <2>1, <2>2
<1>17. ASSUME NEW k \in Kinds, NEW j \in 1 .. Len(inflight'[k]), NEW m \in 1 .. Len(inflight'[k]), j < m
       PROVE  inflight'[k][j].op < inflight'[k][m].op
  <2>1. CASE k = kind
    BY <1>9, <1>10, <1>12, <1>17, <2>1 DEF list1
  <2>2. CASE k # kind
    BY <1>4, <1>17, <2>2 DEF IInv, HeldInv
  <2>3. QED BY <2>1, <2>2
<1>18. ASSUME NEW n \in 1 .. Len(made'), ~answered'[n]
       PROVE  \E j \in 1 .. Len(inflight'[made'[n].kind]) : inflight'[made'[n].kind][j].op = n
  <2>1. made' = made /\ n \in 1 .. Len(made) /\ n \in 1 .. Len(answered)
    BY <1>6, <1>18
  <2>2. ~answered[n] /\ n # op
    BY <1>7, <1>18, <2>1
  <2>3. PICK j \in 1 .. Len(inflight[made[n].kind]) : inflight[made[n].kind][j].op = n
    BY <2>1, <2>2 DEF IInv, HeldInv
  <2>4. made[n].kind \in Kinds
    <3>1. made[n] \in [kind : Kinds, drawn : Nat]
      BY <2>1, ElementOfSeq DEF IInv, TypeOK
    <3>2. QED BY <3>1
  <2>5. CASE made[n].kind = kind
    <3>1. j \in 1 .. Len(list) /\ list[j].op = n
      BY <2>3, <2>5 DEF list
    <3>2. j # i
      BY <2>2, <3>1 DEF op
    <3>3. PICK k \in 1 .. Len(list1) : Was(k) = j
      BY <1>11, <3>1, <3>2
    <3>4. list1[k].op = n
      BY <1>9, <3>1, <3>3
    <3>5. QED BY <2>1, <2>5, <3>4 DEF list1
  <2>6. CASE made[n].kind # kind
    BY <1>4, <2>1, <2>3, <2>4, <2>6
  <2>7. QED BY <2>5, <2>6
<1>19. HeldInv'
  BY <1>16, <1>17, <1>18 DEF HeldInv
<1>20. QED BY <1>4, <1>5, <1>7, <1>19 DEF list

LEMMA ReceiveStep ==
    ASSUME IInv, Receive
    PROVE  IInv'
<1>1. /\ toClient # <<>> /\ toClient' = Tail(toClient)
      /\ UNCHANGED <<open, nextId, toServer, due, drawn, made>>
  BY DEF Receive
<1>2. toClient' \in Seq(Request \cup {ConnackPacket}) /\ ToSet(toClient') \subseteq ToSet(toClient)
  <2>1. toClient \in Seq(Request \cup {ConnackPacket})
    BY DEF IInv, TypeOK
  <2>2. QED BY <1>1, <2>1, ToSetProperties
<1>3. CASE UNCHANGED <<inflight, answered>> /\ connected' \in BOOLEAN
  <2>1. TypeOK'
    BY <1>1, <1>2, <1>3 DEF IInv, TypeOK
  <2>2. Known' \subseteq Known
    BY <1>1, <1>2, <1>3 DEF Known
  <2>3. QED BY <1>1, <1>3, <2>1, <2>2, NothingDrawn, NoAnswerHandled DEF IInv
<1>4. ASSUME NEW kind \in Kinds, NEW id, NEW i \in Find(inflight[kind], id), Finish(kind, i),
             UNCHANGED connected
      PROVE  IInv'
  <2>1. /\ inflight' \in [Kinds -> Seq(Request)]
        /\ \A k \in Kinds : ToSet(inflight'[k]) \subseteq ToSet(inflight[k])
        /\ answered' \in Seq(BOOLEAN) /\ Len(answered') = Len(answered)
        /\ HeldInv'
    BY <1>1, <1>4, FinishStep
  <2>2. TypeOK'
    BY <1>1, <1>2, <1>4, <2>1 DEF IInv, TypeOK
  <2>3. Known' \subseteq Known
    BY <1>1, <1>2, <2>1 DEF Known, Kinds
  <2>4. QED BY <1>1, <2>1, <2>2, <2>3, NothingDrawn DEF IInv
<1>5. CASE HandleConnack
  BY <1>3, <1>5 DEF HandleConnack
<1>6. CASE Head(toClient).kind \in Kinds /\ HandleAnswer(Head(toClient))
  <2>1. CASE UNCHANGED <<inflight, answered>>
    BY <1>3, <1>6, <2>1 DEF HandleAnswer, IInv, TypeOK
  <2>2. CASE \E i \in Find(inflight[Head(toClient).kind], Head(toClient).id) :
                Finish(Head(toClient).kind, i)
    BY <1>4, <1>6, <2>2 DEF HandleAnswer
  <2>3. QED BY <1>6, <2>1, <2>2 DEF HandleAnswer
<1>7. QED BY <1>5, <1>6 DEF Receive

\* The connection and the server: no identifier is drawn, no answer handled.
LEMMA OutsideStep ==
    ASSUME IInv, Close \/ ServerReceive \/ \E request \in due : ServerAnswer(request)
    PROVE  IInv'
<1>1. UNCHANGED <<connected, nextId, inflight, drawn, made, answered>> /\ open' \in BOOLEAN
  BY DEF Close, ServerReceive, ServerAnswer, IInv, TypeOK
<1>2. toClient \in Seq(Request \cup {ConnackPacket}) /\ toServer \in Seq(Request) /\ due \subseteq Request
  BY DEF IInv, TypeOK
<1>3. CASE Close
  <2>1. toServer' = toServer /\ due' = due /\ \E n \in 0 .. Len(toClient) : toClient' = SubSeq(toClient, 1, n)
    BY <1>3 DEF Close
  <2>2. toClient' \in Seq(Request \cup {ConnackPacket}) /\ ToSet(toClient') \subseteq ToSet(toClient)
    BY <1>2, <2>1, ToSetProperties
  <2>3. TypeOK'
    BY <1>1, <2>1, <2>2 DEF IInv, TypeOK
  <2>4. Known' \subseteq Known
    BY <1>1, <2>1, <2>2 DEF Known
  <2>5. QED BY <1>1, <2>3, <2>4, NothingDrawn, NoAnswerHandled DEF IInv
<1>4. CASE ServerReceive
  <2>1. toServer # <<>> /\ due' = due \cup {Head(toServer)} /\ toServer' = Tail(toServer)
        /\ toClient' = toClient
    BY <1>4 DEF ServerReceive
  <2>2. /\ Head(toServer) \in ToSet(toServer) /\ Head(toServer) \in Request
        /\ toServer' \in Seq(Request) /\ ToSet(toServer') \subseteq ToSet(toServer)
    BY <1>2, <2>1, ToSetProperties
  <2>3. TypeOK'
    BY <1>1, <1>2, <2>1, <2>2 DEF IInv, TypeOK
  <2>4. Known' \subseteq Known
    BY <1>1, <2>1, <2>2 DEF Known
  <2>5. QED BY <1>1, <2>3, <2>4, NothingDrawn, NoAnswerHandled DEF IInv
<1>5. ASSUME NEW request \in due, ServerAnswer(request) PROVE IInv'
  <2>1. due' = due \ {request} /\ toClient' = Append(toClient, request) /\ toServer' = toServer
    BY <1>5 DEF ServerAnswer
  <2>2. /\ Append(toClient, request) \in Seq(Request \cup {ConnackPacket})
        /\ ToSet(Append(toClient, request)) = ToSet(toClient) \cup {request}
    BY <1>2, ToSetProperties
  <2>3. TypeOK'
    BY <1>1, <1>2, <2>1, <2>2 DEF IInv, TypeOK
  <2>4. Known' \subseteq Known
    BY <1>1, <2>1, <2>2 DEF Known
  <2>5. QED BY <1>1, <2>3, <2>4, NothingDrawn, NoAnswerHandled DEF IInv
<1>6. QED BY <1>3, <1>4, <1>5
-----------------------------------------------------------------------------
(* The theorems *)

LEMMA InitIInv == Init => IInv
<1> SUFFICES ASSUME Init PROVE IInv
  OBVIOUS
<1>1. \A S : <<>> \in Seq(S) /\ ToSet(<<>>) = {} /\ Len(<<>>) = 0
  BY DEF ToSet
<1>2. <<ConnackPacket>> \in Seq(Request \cup {ConnackPacket}) /\ ToSet(<<ConnackPacket>>) = {ConnackPacket}
  <2> DEFINE S == Request \cup {ConnackPacket}
  <2>1. <<>> \in Seq(S) /\ ConnackPacket \in S
    BY <1>1
  <2> HIDE DEF S
  <2>2. Append(<<>>, ConnackPacket) \in Seq(S)
        /\ ToSet(Append(<<>>, ConnackPacket)) = {ConnackPacket}
    <3>1. Append(<<>>, ConnackPacket) \in Seq(S)
          /\ ToSet(Append(<<>>, ConnackPacket)) = ToSet(<<>>) \cup {ConnackPacket}
      BY <2>1, ToSetProperties
    <3>2. ToSet(<<>>) = {}
      BY <1>1
    <3>3. QED BY <3>1, <3>2
  <2>3. <<ConnackPacket>> = Append(<<>>, ConnackPacket)
    OBVIOUS
  <2>4. QED BY <2>2, <2>3 DEF S
<1>3. TypeOK
  <2>1. toClient \in Seq(Request \cup {ConnackPacket})
    BY <1>2 DEF Init, ConnackPacket
  <2>2. inflight \in [Kinds -> Seq(Request)]
    BY <1>1 DEF Init
  <2>3. toServer \in Seq(Request) /\ made \in Seq([kind : Kinds, drawn : Nat])
        /\ answered \in Seq(BOOLEAN) /\ Len(answered) = Len(made) /\ Len(made) <= MaxRequests
    BY <1>1, BoundsAssumption DEF Init
  <2>4. nextId \in 1 .. U16Max /\ drawn \in Nat
    BY U16MaxAssumption DEF Init
  <2>5. connected \in BOOLEAN /\ open \in BOOLEAN /\ due \subseteq Request
    BY DEF Init
  <2>6. QED BY <2>1, <2>2, <2>3, <2>4, <2>5 DEF TypeOK
<1>4. Known = {}
  BY <1>1, <1>2 DEF Init, Known, Kinds, ConnackPacket
<1>5. MadeInv /\ IdInv /\ HeldInv
  BY <1>1, <1>4 DEF Init, MadeInv, IdInv, HeldInv
<1>6. QED BY <1>3, <1>5 DEF IInv

LEMMA StepIInv == IInv /\ [Next]_vars => IInv'
<1> SUFFICES ASSUME IInv, [Next]_vars PROVE IInv'
  OBVIOUS
<1>1. CASE UNCHANGED vars
  <2>1. TypeOK' /\ Known' \subseteq Known
    BY <1>1 DEF IInv, TypeOK, Known, vars
  <2>2. QED BY <1>1, <2>1, NothingDrawn, NoAnswerHandled DEF IInv, vars
<1>2. ASSUME NEW kind \in Kinds, Start(kind) PROVE IInv'
  BY <1>2, StartStep
<1>3. QED BY <1>1, <1>2, DrawForPublishStep, ReceiveStep, OutsideStep DEF Next

\* Which requests the lists hold, and which identifiers tell requests apart,
\* whatever was drawn by publishes in between.
THEOREM Inductive == Spec => []IInv
<1>1. QED BY InitIInv, StepIInv, PTL DEF Spec

\* Every variable keeps its type: identifiers stay between 1 and U16Max.
THEOREM TypeCorrect == Spec => []TypeOK
<1>1. IInv => TypeOK
  BY DEF IInv
<1>2. QED BY <1>1, Inductive, PTL

\* A request is in one of the two lists, once, exactly while its receiver was
\* told nothing.
THEOREM HeldCorrect == Spec => []PendingHeldOnce
<1>1. ASSUME IInv PROVE PendingHeldOnce
  <2> SUFFICES ASSUME NEW n \in DOMAIN made, NEW kind \in Kinds
               PROVE  Cardinality({i \in DOMAIN inflight[kind] : inflight[kind][i].op = n})
                        = IF kind = made[n].kind /\ ~answered[n] THEN 1 ELSE 0
    BY DEF PendingHeldOnce
  <2> DEFINE at == {i \in DOMAIN inflight[kind] : inflight[kind][i].op = n}
  <2>1. n \in 1 .. Len(made) /\ DOMAIN inflight[kind] = 1 .. Len(inflight[kind])
        /\ Len(inflight[kind]) \in Nat
    BY <1>1, LenProperties DEF IInv, TypeOK
  <2>2. CASE kind = made[n].kind /\ ~answered[n]
    <3>1. PICK i \in 1 .. Len(inflight[kind]) : inflight[kind][i].op = n
      BY <1>1, <2>1, <2>2 DEF IInv, HeldInv
    <3>2. \A j \in 1 .. Len(inflight[kind]) : inflight[kind][j].op = n => j = i
      <4> SUFFICES ASSUME NEW j \in 1 .. Len(inflight[kind]), inflight[kind][j].op = n, j # i
                   PROVE  FALSE
        OBVIOUS
      <4>1. j < i \/ i < j
        BY <2>1
      <4>2. inflight[kind][j].op < inflight[kind][i].op \/ inflight[kind][i].op < inflight[kind][j].op
        BY <1>1, <4>1 DEF IInv, HeldInv
      <4>3. QED BY <2>1, <3>1, <4>2
    <3>3. at = {i}
      BY <2>1, <3>1, <3>2
    <3>4. QED BY <2>2, <3>3, FS_Singleton
  <2>3. CASE ~(kind = made[n].kind /\ ~answered[n])
    <3>1. at = {}
      BY <1>1, <2>1, <2>3 DEF IInv, HeldInv
    <3>2. QED BY <2>3, <3>1, FS_EmptySet
  <2>4. QED BY <2>2, <2>3
<1>2. QED BY <1>1, Inductive, PTL

\* A receiver is told once, and the answer to its own request; or, when all the
\* identifiers went round in between, to another request of its kind.
THEOREM AnswerCorrect == Spec => AnswerReachesItsRequest
<1> DEFINE A == \A n \in DOMAIN made :
                  answered'[n] # answered[n] =>
                    LET m == Head(toClient).op
                        apart == IF m < n THEN made[n].drawn - made[m].drawn
                                          ELSE made[m].drawn - made[n].drawn
                    IN
                    /\ ~answered[n]
                    /\ m = n \/ (made[m].kind = made[n].kind /\ apart >= U16Max)
<1>1. ASSUME IInv, [Next]_vars PROVE A
  <2> SUFFICES ASSUME NEW n \in DOMAIN made, answered'[n] # answered[n]
               PROVE  LET m == Head(toClient).op
                          apart == IF m < n THEN made[n].drawn - made[m].drawn
                                            ELSE made[m].drawn - made[n].drawn
                      IN
                      /\ ~answered[n]
                      /\ m = n \/ (made[m].kind = made[n].kind /\ apart >= U16Max)
    OBVIOUS
  <2> DEFINE answer == Head(toClient)
             m == answer.op
  <2>1. /\ n \in 1 .. Len(made) /\ n \in 1 .. Len(answered) /\ answered \in Seq(BOOLEAN)
        /\ Len(made) \in Nat
    BY <1>1, LenProperties DEF IInv, TypeOK
  <2>2. \A b \in BOOLEAN : answered' # Append(answered, b)
    BY <2>1, AppendProperties
  <2>3. /\ toClient # <<>> /\ answer.kind \in Kinds /\ UNCHANGED made
        /\ \E i \in Find(inflight[answer.kind], answer.id) : Finish(answer.kind, i)
    <3>1. answered' # answered
      OBVIOUS
    <3>2. Receive
      BY <1>1, <2>2, <3>1 DEF Next, vars, DrawForPublish, Start, Close, ServerReceive, ServerAnswer
    <3>3. QED BY <3>1, <3>2 DEF Receive, HandleConnack, HandleAnswer
  <2> DEFINE kind == answer.kind
             id == answer.id
  <2> HIDE DEF kind, id
  <2>4. kind \in Kinds /\ \E i \in Find(inflight[kind], id) : Finish(kind, i)
    BY <2>3 DEF kind, id
  <2>5. PICK i \in Find(inflight[kind], id) : Finish(kind, i)
    BY <2>4
  <2> DEFINE entry == inflight[kind][i]
  <2>6. /\ entry \in Known /\ entry.op \in 1 .. Len(made) /\ entry.id = id
         /\ made[entry.op].kind = kind /\ ~answered[entry.op]
    BY <1>1, <2>4, <2>5, FoundProperties
  <2>7. answered' \in Seq(BOOLEAN) /\ Len(answered') = Len(answered)
         /\ (answered'[n] <=> (n = entry.op \/ answered[n]))
    BY <1>1, <2>1, <2>3, <2>4, <2>5, FinishStep
  <2> HIDE DEF entry
  <2>8. /\ entry \in Known /\ entry.op \in 1 .. Len(made) /\ entry.id = answer.id
        /\ made[entry.op].kind = answer.kind /\ ~answered[entry.op]
    BY <2>6 DEF kind, id
  <2>9. n = entry.op
    <3>1. answered[n] \in BOOLEAN /\ answered'[n] \in BOOLEAN
      BY <2>1, <2>7, ElementOfSeq
    <3>2. QED BY <2>7, <3>1
  <2>10. answer \in Known
    <3>1. toClient \in Seq(Request \cup {ConnackPacket})
      BY <1>1 DEF IInv, TypeOK
    <3>2. answer \in ToSet(toClient)
      BY <2>3, <3>1, ToSetProperties
    <3>3. answer # ConnackPacket
      BY <2>3 DEF Kinds, ConnackPacket
    <3>4. QED BY <3>2, <3>3 DEF Known
  <2>11. m \in 1 .. Len(made) /\ made[m].kind = answer.kind
    BY <1>1, <2>10 DEF IInv, MadeInv
  <2>12. made[m].drawn \in Nat /\ made[n].drawn \in Nat
    <3>1. \A k \in 1 .. Len(made) : made[k] \in [kind : Kinds, drawn : Nat]
      BY <1>1, ElementOfSeq DEF IInv, TypeOK
    <3>2. QED BY <2>1, <2>11, <3>1
  <2>13. /\ ~(0 < made[m].drawn - made[n].drawn /\ made[m].drawn - made[n].drawn < U16Max)
        /\ ~(0 < made[n].drawn - made[m].drawn /\ made[n].drawn - made[m].drawn < U16Max)
    BY <1>1, <2>8, <2>9, <2>10 DEF IInv, IdInv
  <2>14. CASE m < n
    <3>1. made[m].drawn < made[n].drawn
      BY <1>1, <2>1, <2>11, <2>14 DEF IInv, MadeInv
    <3>2. made[n].drawn - made[m].drawn >= U16Max
      BY <2>12, <2>13, <3>1, U16MaxAssumption
    <3>3. QED BY <2>8, <2>9, <2>11, <2>14, <3>2
  <2>15. CASE n < m
    <3>1. made[n].drawn < made[m].drawn
      BY <1>1, <2>1, <2>11, <2>15 DEF IInv, MadeInv
    <3>2. made[m].drawn - made[n].drawn >= U16Max
      BY <2>12, <2>13, <3>1, U16MaxAssumption
    <3>3. ~(m < n)
      BY <2>1, <2>11, <2>15
    <3>4. QED BY <2>8, <2>9, <2>11, <3>2, <3>3
  <2>16. CASE m = n
    BY <2>8, <2>9, <2>16
  <2>17. QED BY <2>1, <2>11, <2>14, <2>15, <2>16
<1>2. ASSUME IInv, [Next]_vars PROVE [A]_vars
  BY <1>1, <1>2
<1>3. QED BY <1>2, Inductive, PTL DEF AnswerReachesItsRequest, Spec
=============================================================================
