------------------------------ MODULE Requests ------------------------------
(***************************************************************************)
(* The subscribes and unsubscribes of mqtt5::client and their answers,     *)
(* with a server that answers each request once, in any order.  The server *)
(* is not part of the repository.                                          *)
(*                                                                         *)
(* Requests draw their packet identifiers from the generator that          *)
(* publishes use, and nobody looks whether an identifier is in use still.  *)
(* An answer carries, as `op', the request it answers: the client does not *)
(* see it, the properties do.                                              *)
(*                                                                         *)
(* Definitions named ...Fault are not the program: each is what a likely   *)
(* slip in the definition below it would be, and a property rules it out.  *)
(***************************************************************************)
EXTENDS Naturals, Sequences, SequencesExt, FiniteSets

CONSTANTS
    U16Max,        \* largest std::uint16_t; 65535 in the program
    MaxRequests,   \* bound on the subscribes and unsubscribes
    MaxPublishes,  \* bound on the publishes that draw an identifier
    MayClose       \* the connection may be closed

ASSUME U16MaxAssumption == U16Max \in Nat /\ U16Max > 0
ASSUME BoundsAssumption ==
    MaxRequests \in Nat /\ MaxPublishes \in Nat /\ MayClose \in BOOLEAN

VARIABLES
    connected,  \* the connection state machine is in `connected'
    open,       \* the socket is open
    nextId,     \* packet_identifier_generator_t::next_
    inflight,   \* subscribe_messages_ and unsubscribe_messages_, by kind
    toServer,   \* requests on their way, oldest first
    toClient,   \* answers on their way, oldest first
    due,        \* the requests the server has not answered
    drawn,      \* history: the number of identifiers drawn
    made,       \* history: made[n] is the request n: its kind and drawn before it
    answered    \* history: answered[n], the receiver of request n was told

vars == <<connected, open, nextId, inflight, toServer, toClient, due, drawn, made, answered>>

Kinds == {"subscribe", "unsubscribe"}
Request == [kind : Kinds, op : 1 .. MaxRequests, id : 1 .. U16Max]

\* CONNECT has been sent; the CONNACK is on its way.
Init ==
    /\ connected = FALSE /\ open = TRUE
    /\ nextId = 1
    /\ inflight = [kind \in Kinds |-> <<>>]
    /\ toServer = <<>> /\ toClient = <<[kind |-> "connack"]>> /\ due = {}
    /\ drawn = 0 /\ made = <<>> /\ answered = <<>>
-----------------------------------------------------------------------------
(* The client *)

\* packet_identifier_generator_t::operator().
Draw == nextId' = IF nextId = U16Max THEN 1 ELSE nextId + 1

\* A publish with QoS 1 or 2 draws an identifier.
DrawForPublish ==
    /\ drawn - Len(made) < MaxPublishes
    /\ drawn' = drawn + 1
    /\ Draw
    /\ UNCHANGED <<connected, open, inflight, toServer, toClient, due, made, answered>>

\* start of subscribe_sender and of unsubscribe_sender.  What is written to a
\* closed socket goes nowhere.
Start(kind) ==
    LET request == [kind |-> kind, op |-> Len(made) + 1, id |-> nextId] IN
    /\ Len(made) < MaxRequests
    /\ made' = Append(made, [kind |-> kind, drawn |-> drawn])
    /\ answered' = Append(answered, FALSE)
    /\ drawn' = drawn + 1
    /\ Draw
    /\ toServer' = IF open THEN Append(toServer, request) ELSE toServer
    /\ inflight' = [inflight EXCEPT ![kind] = Append(@, request)]
    /\ UNCHANGED <<connected, open, toClient, due>>

\* The requests are taken to be answered in order.
FindFault(requests, id) == IF requests = <<>> THEN {} ELSE {1}

\* std::find_if: the position of the first request with the identifier.
Find(requests, id) ==
    {i \in DOMAIN requests :
        /\ requests[i].id = id
        /\ \A j \in 1 .. i - 1 : requests[j].id # id}

\* The entry is not erased.
FinishFault(kind, i) ==
    /\ answered' = [answered EXCEPT ![inflight[kind][i].op] = TRUE]
    /\ UNCHANGED inflight

\* The entry is erased and its receiver told.
Finish(kind, i) ==
    /\ answered' = [answered EXCEPT ![inflight[kind][i].op] = TRUE]
    /\ inflight' = [inflight EXCEPT ![kind] = RemoveAt(@, i)]

\* An answer is given up when its request is not the last of its list.
HandleAnswerFault(answer) ==
    LET requests == inflight[answer.kind]
        found == Find(requests, answer.id) \cap {Len(requests)} IN
    /\ connected
    /\ \/ \E i \in found : Finish(answer.kind, i)
       \/ found = {} /\ UNCHANGED <<inflight, answered>>
    /\ UNCHANGED connected

\* handle_packet(suback) and handle_packet(unsuback): an unknown identifier is
\* ignored.
HandleAnswer(answer) ==
    LET found == Find(inflight[answer.kind], answer.id) IN
    /\ connected
    /\ \/ \E i \in found : Finish(answer.kind, i)
       \/ found = {} /\ UNCHANGED <<inflight, answered>>
    /\ UNCHANGED connected

HandleConnack ==
    /\ ~connected
    /\ connected' = TRUE
    /\ UNCHANGED <<inflight, answered>>

Receive ==
    /\ toClient # <<>>
    /\ \/ Head(toClient).kind = "connack" /\ HandleConnack
       \/ Head(toClient).kind \in Kinds /\ HandleAnswer(Head(toClient))
    /\ toClient' = Tail(toClient)
    /\ UNCHANGED <<open, nextId, toServer, due, drawn, made>>

\* client::close().  What was already read is still dispatched.
Close ==
    /\ MayClose /\ open
    /\ open' = FALSE
    /\ \E n \in 0 .. Len(toClient) : toClient' = SubSeq(toClient, 1, n)
    /\ UNCHANGED <<connected, nextId, inflight, toServer, due, drawn, made, answered>>
-----------------------------------------------------------------------------
(* The server *)

ServerReceive ==
    /\ open /\ toServer # <<>>
    /\ due' = due \cup {Head(toServer)}
    /\ toServer' = Tail(toServer)
    /\ UNCHANGED <<connected, open, nextId, inflight, toClient, drawn, made, answered>>

ServerAnswer(request) ==
    /\ open
    /\ due' = due \ {request}
    /\ toClient' = Append(toClient, request)
    /\ UNCHANGED <<connected, open, nextId, inflight, toServer, drawn, made, answered>>

Next ==
    \/ DrawForPublish
    \/ \E kind \in Kinds : Start(kind)
    \/ Receive \/ Close
    \/ ServerReceive \/ \E request \in due : ServerAnswer(request)

Spec == Init /\ [][Next]_vars

\* The io_context dispatches what has arrived; the server takes in and answers
\* every request.  The user owes nothing.
Fairness ==
    /\ WF_vars(Receive)
    /\ WF_vars(ServerReceive)
    /\ \A n \in 1 .. MaxRequests : WF_vars(\E request \in due : request.op = n /\ ServerAnswer(request))

FairSpec == Spec /\ Fairness
-----------------------------------------------------------------------------
(* Properties *)

\* A request is in one of the two lists, once, exactly while its receiver was
\* told nothing: its answer, should it come, finds it.
PendingHeldOnce ==
    \A n \in DOMAIN made :
        \A kind \in Kinds :
            Cardinality({i \in DOMAIN inflight[kind] : inflight[kind][i].op = n})
            = IF kind = made[n].kind /\ ~answered[n] THEN 1 ELSE 0

\* A receiver is told once, and the answer to its own request.  The exception
\* needs the identifiers to go round: the answer to another request of its kind
\* only if every identifier was drawn between the two.
AnswerReachesItsRequest ==
    [][\A n \in DOMAIN made :
        answered'[n] # answered[n] =>
            LET m == Head(toClient).op
                apart == IF m < n THEN made[n].drawn - made[m].drawn
                                  ELSE made[m].drawn - made[n].drawn
            IN
            /\ ~answered[n]
            /\ m = n \/ (made[m].kind = made[n].kind /\ apart >= U16Max)]_vars

\* Every request is answered in the end while the socket is open, even when
\* identifiers went round and answers were mistaken for one another.
EveryRequestAnswered ==
    \A n \in 1 .. MaxRequests : Len(made) >= n ~> (Len(made) >= n /\ answered[n]) \/ ~open
=============================================================================
