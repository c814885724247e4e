------------------------------ MODULE Framing ------------------------------
(***************************************************************************)
(* Control packets on a stream: variable length integers, the header, the  *)
(* writers of one mqtt5::connection and the reader of another, which reads *)
(* some bytes at a time into read_buffer_ until a header and then a body   *)
(* are there.                                                              *)
(*                                                                         *)
(* client::send_message starts a writer without waiting for the one before *)
(* it.  A writer writes some bytes at a time too: the stream carries out   *)
(* the calls of write_some in the order in which they are made.            *)
(*                                                                         *)
(* A byte is a natural number; its digit is the rest by Base and the bit   *)
(* that says that more bytes follow is set if it is not below Base.  The   *)
(* body of a packet is a sequence of fields: integers, strings and bytes.  *)
(* Which fields a packet has is the matter of Packets.                     *)
(*                                                                         *)
(* Definitions named ...Fault are not the program: each is what a likely   *)
(* slip in the definition below it would be, and a property rules it out.  *)
(***************************************************************************)
EXTENDS Naturals, Sequences, SequencesExt

CONSTANTS
    Base,            \* 128 in the program
    MaxDigits,       \* digits of a variable length integer; 4 in the program
    ReadAhead,       \* fewest bytes asked for at a time; 64 in the program
    Layouts,         \* kinds of the fields, by the first byte, of the packets
                     \* the program knows
    Packets,         \* packets that are sent: first byte and fields
    MaxPackets,      \* bound on the packets sent on a connection
    MaxCuts,         \* bound on the writes cut short
    MaxConnections   \* bound on the connections made with one reader

ASSUME BaseAssumption == Base \in Nat /\ Base > 1
ASSUME DigitsAssumption == MaxDigits \in Nat /\ MaxDigits > 0
ASSUME ReadAheadAssumption == ReadAhead \in Nat /\ ReadAhead > 0
ASSUME BoundsAssumption == MaxPackets \in Nat /\ MaxCuts \in Nat /\ MaxConnections \in Nat

Byte == 0 .. 2 * Base - 1
Power[n \in Nat] == IF n = 0 THEN 1 ELSE Base * Power[n - 1]
MaxValue == Power[MaxDigits] - 1

IntegerKinds == {"u8", "u16", "u32"}
Kinds == IntegerKinds \union {"string", "rest"}
KnownTypes == DOMAIN Layouts

\* The integers that so many bytes can say.
Values(width) ==
    CASE width = 1 -> 0 .. 2 * Base - 1
      [] width = 2 -> 0 .. (2 * Base) * (2 * Base) - 1
      [] width = 4 -> 0 .. (2 * Base) * ((2 * Base) * ((2 * Base) * (2 * Base))) - 1

\* What takes all the bytes left comes last.
ASSUME LayoutsAssumption ==
    /\ KnownTypes \subseteq Byte
    /\ \A k \in KnownTypes :
        /\ Layouts[k] \in Seq(Kinds)
        /\ \A i \in DOMAIN Layouts[k] : Layouts[k][i] = "rest" => i = Len(Layouts[k])

Field ==
    [kind : {"u8"}, value : Values(1)] \union [kind : {"u16"}, value : Values(2)]
    \union [kind : {"u32"}, value : Values(4)]
    \union [kind : {"string", "rest"}, value : Seq(Byte)]

ASSUME PacketsAssumption ==
    /\ Packets \subseteq [first : Byte, fields : Seq(Field)]
    /\ \A p \in Packets : p.first \in KnownTypes =>
        Layouts[p.first] = [i \in DOMAIN p.fields |-> p.fields[i].kind]
-----------------------------------------------------------------------------
(* Variable length integers *)

\* varlen_int::serialize.  More than MaxValue is refused with an exception.
Digits[value \in Nat] ==
    IF value < Base THEN <<value>> ELSE <<(value % Base) + Base>> \o Digits[value \div Base]

\* varlen_int::can_deserialize.
CanDeserialize(bytes) ==
    Len(bytes) >= MaxDigits \/ \E i \in DOMAIN bytes : bytes[i] < Base

\* The number of bytes of the integer that bytes begin with; none if it does
\* not end in time.
Used(bytes) ==
    {n \in 1 .. MaxDigits :
        n <= Len(bytes) /\ bytes[n] < Base /\ \A i \in 1 .. n - 1 : bytes[i] >= Base}

\* varlen_int::deserialize, given the number of bytes.
Value(bytes, n) ==
    FoldRight(LAMBDA byte, rest : (byte % Base) + Base * rest, SubSeq(bytes, 1, n), 0)
-----------------------------------------------------------------------------
(* Fields *)

Width(kind) == CASE kind = "u8" -> 1 [] kind = "u16" -> 2 [] kind = "u32" -> 4

\* fixed_int::serialize: the bytes of an integer, the highest first; what does
\* not fit in is cut off.
FixedInt[width \in Nat] ==
    [value \in Nat |->
        IF width = 0 THEN <<>>
        ELSE Append(FixedInt[width - 1][value \div (2 * Base)], value % (2 * Base))]

\* fixed_int::deserialize.
IntegerOf(bytes) == FoldLeft(LAMBDA value, byte : value * 2 * Base + byte, 0, bytes)

\* serialize of fixed_int, string and binary; the rest is written as it is.
FieldBytes(f) ==
    CASE f.kind \in IntegerKinds -> FixedInt[Width(f.kind)][f.value]
      [] f.kind = "string" -> FixedInt[2][Len(f.value)] \o f.value
      [] OTHER -> f.value

\* The length that a string says it has.
StringLength(bytes) == IntegerOf(SubSeq(bytes, 1, 2))

\* How many bytes deserialize uses up; more than there are is an exception.
Uses(kind, bytes) ==
    CASE kind \in IntegerKinds -> Width(kind)
      [] kind = "string" -> IF Len(bytes) < 2 THEN 2 ELSE 2 + StringLength(bytes)
      [] OTHER -> Len(bytes)

ValueOf(kind, bytes) ==
    CASE kind \in IntegerKinds -> IntegerOf(bytes)
      [] kind = "string" -> SubSeq(bytes, 3, Len(bytes))
      [] OTHER -> bytes

\* One field after the other is taken from what is left of the body.
TakeField(taken, kind) ==
    LET n == Uses(kind, taken.left) IN
    IF n > Len(taken.left) THEN [taken EXCEPT !.throws = TRUE]
    ELSE [taken EXCEPT
            !.fields = Append(@, [kind |-> kind, value |-> ValueOf(kind, SubSeq(taken.left, 1, n))]),
            !.left = SubSeq(@, n + 1, Len(@))]

Deserialize(kinds, body) ==
    FoldLeft(TakeField, [fields |-> <<>>, left |-> body, throws |-> FALSE], kinds)

Body(packet) == FlattenSeq([i \in DOMAIN packet.fields |-> FieldBytes(packet.fields[i])])

ASSUME LengthAssumption == \A p \in Packets : Len(Body(p)) <= MaxValue

\* header::serialize and the body.
Encode(packet) == <<packet.first>> \o Digits[Len(Body(packet))] \o Body(packet)

\* A packet that cannot be understood: its type is unknown, or a string in it is
\* longer than its length can say.
Odd(packet) ==
    \/ packet.first \notin KnownTypes
    \/ \E i \in DOMAIN packet.fields :
        packet.fields[i].kind = "string" /\ Len(packet.fields[i].value) \notin Values(2)
-----------------------------------------------------------------------------
VARIABLES
    open,       \* the socket is open
    writes,     \* calls of write_some under way, oldest first: writer and bytes
    resumes,    \* writers that have bytes left and are to call write_some again
    wire,       \* bytes sent and not yet read
    buffer,     \* read_buffer_
    reader,     \* what a reader waits for: nothing, the header, the body; or failed
    first,      \* header::type_flags_
    remaining,  \* header::remaining_length_
    out,        \* history: the packets read on this connection
    sent,       \* history: the packets sent on this connection
    odd,        \* history: among them one that cannot be understood
    torn,       \* history: a packet was written into another one
    cuts,       \* history: the number of writes cut short
    stale,      \* history: an earlier connection left bytes in the buffer
    connection  \* history: the number of connections made

writing == <<writes, resumes, sent, odd, torn, cuts>>
reading == <<buffer, reader, first, remaining, out>>
vars == <<open, writing, wire, reading, stale, connection>>

Init ==
    /\ open = TRUE /\ writes = <<>> /\ resumes = <<>> /\ wire = <<>> /\ buffer = <<>>
    /\ reader = "idle" /\ first = 0 /\ remaining = 0
    /\ out = <<>> /\ sent = <<>> /\ odd = FALSE /\ torn = FALSE /\ cuts = 0 /\ stale = FALSE /\ connection = 1
-----------------------------------------------------------------------------
(* The reader *)

\* A header needs three bytes at first.
HeaderNeedsFault ==
    IF Len(buffer) < 3 THEN 3 - Len(buffer)
    ELSE IF CanDeserialize(Tail(buffer)) THEN 0 ELSE 1

\* header::inplace_deserializer, its predicate: how many bytes more.
HeaderNeeds ==
    IF Len(buffer) < 2 THEN 2 - Len(buffer)
    ELSE IF CanDeserialize(Tail(buffer)) THEN 0 ELSE 1

\* data_fetcher::get_data, its predicate.
BodyNeeds == IF Len(buffer) < remaining THEN remaining - Len(buffer) ELSE 0

Needs ==
    CASE reader = "header" -> HeaderNeeds
      [] reader = "body" -> BodyNeeds
      [] OTHER -> 0

\* A read of the stream is pending.
Waiting == Needs > 0

\* control_packet_reader() is started.
StartReading ==
    /\ reader = "idle" /\ open
    /\ reader' = "header"
    /\ UNCHANGED <<open, writing, wire, buffer, first, remaining, out, stale, connection>>

\* data_reader::operation::start and read_some: some of the bytes that have
\* arrived, up to the number asked for.
ReadSome ==
    LET asked == IF Needs < ReadAhead THEN ReadAhead ELSE Needs IN
    /\ Waiting
    /\ \E n \in 1 .. Len(wire) :
        /\ n <= asked
        /\ buffer' = buffer \o SubSeq(wire, 1, n)
        /\ wire' = SubSeq(wire, n + 1, Len(wire))
    /\ UNCHANGED <<open, writing, reader, first, remaining, out, stale, connection>>

\* header::inplace_deserializer, its transformer.  A length that does not end
\* is an error, the first byte being consumed.
ReadHeader ==
    /\ reader = "header" /\ HeaderNeeds = 0
    /\ first' = buffer[1]
    /\ \/ \E n \in Used(Tail(buffer)) :
            /\ remaining' = Value(Tail(buffer), n)
            /\ buffer' = SubSeq(buffer, n + 2, Len(buffer))
            /\ reader' = "body"
       \/ /\ Used(Tail(buffer)) = {}
          /\ buffer' = Tail(buffer)
          /\ reader' = "failed"
          /\ UNCHANGED remaining
    /\ UNCHANGED <<open, writing, wire, out, stale, connection>>

\* The buffer is emptied rather than moved on.
ConsumeFault(n) == buffer' = <<>>

Consume(n) == buffer' = SubSeq(buffer, n + 1, Len(buffer))

\* control_packet::inplace_deserializer: the body is there.  What throws leaves
\* it in the buffer.
ReadBody ==
    /\ reader = "body" /\ BodyNeeds = 0
    /\ LET kinds == IF first \in KnownTypes THEN Layouts[first] ELSE <<>>
           body == Deserialize(kinds, SubSeq(buffer, 1, remaining)) IN
        \/ /\ first \in KnownTypes /\ ~body.throws
           /\ out' = Append(out, [first |-> first, fields |-> body.fields])
           /\ Consume(remaining)
           /\ reader' = "idle"
        \/ /\ first \notin KnownTypes \/ body.throws
           /\ reader' = "failed"
           /\ UNCHANGED <<buffer, out>>
    /\ UNCHANGED <<open, writing, wire, first, remaining, stale, connection>>
-----------------------------------------------------------------------------
(* The writers *)

\* control_packet_writer(packet) is started.
StartWriting(packet) ==
    /\ open /\ ~odd /\ Len(sent) < MaxPackets
    /\ sent' = Append(sent, packet)
    /\ writes' = Append(writes, [writer |-> Len(sent'), bytes |-> Encode(packet)])
    /\ odd' = Odd(packet)
    /\ UNCHANGED <<open, resumes, torn, cuts, wire, reading, stale, connection>>

\* A length that does not end, as no writer of this program sends it.
SendEndlessLength ==
    /\ open /\ ~odd /\ writes = <<>> /\ resumes = <<>>
    /\ odd' = TRUE
    /\ wire' = wire \o <<0>> \o [i \in 1 .. MaxDigits |-> Base]
    /\ UNCHANGED <<open, writes, resumes, sent, torn, cuts, reading, stale, connection>>

\* What writer w has still to write.
Left(w) ==
    FlattenSeq([i \in DOMAIN writes |-> IF writes[i].writer = w THEN writes[i].bytes ELSE <<>>])
    \o FlattenSeq([i \in DOMAIN resumes |-> IF resumes[i].writer = w THEN resumes[i].bytes ELSE <<>>])

InTheMiddle(w) == Left(w) # <<>> /\ Left(w) # Encode(sent[w])

\* The oldest call puts some of its bytes on the wire.
WriteSome ==
    /\ writes # <<>>
    /\ LET call == Head(writes) IN
        \E n \in 1 .. Len(call.bytes) :
            /\ wire' = wire \o SubSeq(call.bytes, 1, n)
            /\ writes' = Tail(writes)
            /\ \/ /\ n = Len(call.bytes)
                  /\ UNCHANGED <<resumes, cuts>>
               \/ /\ n < Len(call.bytes) /\ cuts < MaxCuts
                  /\ cuts' = cuts + 1
                  /\ resumes' = Append(resumes, [call EXCEPT !.bytes = SubSeq(@, n + 1, Len(@))])
            /\ torn' = (torn \/ \E w \in DOMAIN sent : w # call.writer /\ InTheMiddle(w))
    /\ UNCHANGED <<open, sent, odd, reading, stale, connection>>

\* The call has completed, its writer makes another one for the rest.
WriteRest ==
    /\ resumes # <<>>
    /\ writes' = Append(writes, Head(resumes))
    /\ resumes' = Tail(resumes)
    /\ UNCHANGED <<open, sent, odd, torn, cuts, wire, reading, stale, connection>>
-----------------------------------------------------------------------------
(* The socket *)

\* The socket is cancelled and closed while a read is pending or between two.
\* The senders are done; the buffer keeps what was read.
Close ==
    /\ connection < MaxConnections
    /\ open /\ (Waiting \/ reader = "idle")
    /\ open' = FALSE /\ reader' = "idle"
    /\ wire' = <<>> /\ writes' = <<>> /\ resumes' = <<>>
    /\ stale' = (stale \/ buffer # <<>>)
    /\ UNCHANGED <<buffer, first, remaining, out, sent, odd, torn, cuts, connection>>

\* The socket is connected again.
Reopen ==
    /\ ~open
    /\ open' = TRUE
    /\ connection' = connection + 1
    /\ out' = <<>> /\ sent' = <<>> /\ odd' = FALSE /\ torn' = FALSE
    /\ UNCHANGED <<writes, resumes, cuts, wire, buffer, reader, first, remaining, stale>>

Next ==
    \/ StartReading \/ ReadSome \/ ReadHeader \/ ReadBody
    \/ \E packet \in Packets : StartWriting(packet)
    \/ SendEndlessLength \/ WriteSome \/ WriteRest
    \/ Close \/ Reopen

Spec == Init /\ [][Next]_vars
-----------------------------------------------------------------------------
(* Properties *)

\* The bytes of packets, one behind the other.
EncodeAll(packets) == FlattenSeq([i \in DOMAIN packets |-> Encode(packets[i])])

\* What was taken out of the buffer of the packet that is being read.
HeaderInHand == IF reader = "body" THEN <<first>> \o Digits[remaining] ELSE <<>>

\* What the writers still have to write.
Unwritten == FlattenSeq([w \in DOMAIN sent |-> Left(w)])

\* No byte is lost, read twice or put out of place, however the stream is cut
\* by writes and reads: the packets read, what is in hand, what is on its way
\* and what is not written yet are what was sent.  This takes a buffer that no
\* earlier connection left bytes in, and no write that goes out between two
\* parts of another one, which nothing but luck prevents.
NoByteLost ==
    open /\ ~odd /\ ~stale /\ ~torn =>
        EncodeAll(out) \o HeaderInHand \o buffer \o wire \o Unwritten = EncodeAll(sent)

\* The reader waits for bytes only while no whole packet is there: when all has
\* arrived, all has come out, field by field as it was.  And it gives up on
\* nothing but an endless length and a packet that cannot be understood.
NothingHeldBack ==
    open /\ ~stale /\ ~torn =>
        /\ wire = <<>> /\ Unwritten = <<>> /\ Waiting /\ ~odd => out = sent /\ buffer = <<>>
        /\ reader = "failed" => odd
        /\ IsPrefix(out, sent) \/ (odd /\ IsPrefix(Front(out), sent))
=============================================================================
