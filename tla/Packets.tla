------------------------------ MODULE Packets ------------------------------
(***************************************************************************)
(* The bodies of control packets: how each is written, field by field, and *)
(* read back, and the properties most of them carry.                       *)
(*                                                                         *)
(* A wire is a sequence of fields, each of a kind and with a value; a      *)
(* field read as a kind that it is not of is a misread.  A block of        *)
(* properties is one field: its length is found by writing it, so it holds *)
(* what was written.  Integers keep their widths, bytes are opaque; a      *)
(* string is empty, short, or longer than its two bytes of length can say. *)
(* Property identifiers go by their names in property_ids.  Left out are   *)
(* the fields that are the same in every packet or follow another that is  *)
(* here: protocol name and version, and the payload of a will.             *)
(*                                                                         *)
(* The state machine fills in a packet, as a user or the client does, and  *)
(* has it written and read; or has it written by a peer that follows       *)
(* MQTT 5, which is not part of the repository.                            *)
(*                                                                         *)
(* Definitions named ...Fault are not the program: each is what a likely   *)
(* slip in the definition below it would be, and a property rules it out.  *)
(***************************************************************************)
EXTENDS Naturals, Sequences, SequencesExt

CONSTANTS
    U8Max, U16Max, U32Max,  \* largest unsigned integers of 8, 16 and 32 bits
    Small,        \* integers tried
    MaxChanges,   \* bound on the properties that are filled in
    MaxItems      \* bound on the items after the fields

ASSUME WidthAssumption ==
    /\ U8Max \in Nat /\ U16Max \in Nat /\ U32Max \in Nat
    /\ 5 <= U8Max /\ U8Max < U16Max /\ U16Max < U32Max
ASSUME SmallAssumption == Small \subseteq 0 .. U32Max
ASSUME BoundsAssumption == MaxChanges \in Nat /\ MaxItems \in Nat
-----------------------------------------------------------------------------
(* Properties *)

Integral(kind) == kind \in {"bool", "u8", "u16", "u32", "varlen"}

Bound(kind) ==
    CASE kind = "bool" -> 1 [] kind = "u8" -> U8Max [] kind = "u16" -> U16Max [] OTHER -> U32Max

\* static_cast to an unsigned integer, and the conversion to bool.
Cast(kind, value) ==
    CASE kind = "bool" -> IF value = 0 THEN 0 ELSE 1
      [] Integral(kind) /\ kind # "bool" -> value % (Bound(kind) + 1)
      [] OTHER -> value

TwoBytes == {"server_keep_alive", "receive_maximum", "topic_alias_maximum", "topic_alias"}
FourBytes == {"message_expiry_interval", "session_expiry_interval", "will_delay_interval",
              "maximum_packet_size"}
Strings == {"content_type", "response_topic", "assigned_client_id", "authentication_method",
            "response_information", "server_reference", "reason_string"}

\* The keep alive of a server is taken for one byte.
StorageFault(id) ==
    CASE id \in TwoBytes \ {"server_keep_alive"} -> "u16"
      [] id \in FourBytes -> "u32"
      [] id \in Strings -> "string"
      [] id \in {"correlation_data", "authentication_data", "subscription_identifier"} -> "binary"
      [] id = "user_property" -> "pair"
      [] OTHER -> "u8"

\* property::activate_id: the alternative of value_ that an identifier selects.
Storage(id) ==
    CASE id \in TwoBytes -> "u16"
      [] id \in FourBytes -> "u32"
      [] id \in Strings -> "string"
      [] id \in {"correlation_data", "authentication_data", "subscription_identifier"} -> "binary"
      [] id = "user_property" -> "pair"
      [] OTHER -> "u8"

\* MQTT 5, table 2-4.
Prescribed(id) == IF id = "subscription_identifier" THEN "varlen" ELSE Storage(id)

\* assign_value and get_value_into throw unless the two types agree.
Compatible(kind, other) == kind = other \/ (Integral(kind) /\ Integral(other))

\* property(id, value).
Property(id, value) == [id |-> id, kind |-> Storage(id), value |-> Cast(Storage(id), value)]

\* Properties are added without a look at those that are there.
AddPropertyFault(list, property) == Append(list, property)

\* properties::add_property: the later of two takes the place of the earlier,
\* user properties apart.
AddProperty(list, property) ==
    IF property.id = "user_property" \/ \A i \in DOMAIN list : list[i].id # property.id
    THEN Append(list, property)
    ELSE [list EXCEPT ![SelectInSeq(list, LAMBDA p : p.id = property.id)].value = property.value]

\* A member of a properties_t that stands for a property: its type, its default
\* and the type its value is asked for as.
Member(id, kind, default) == [id |-> id, kind |-> kind, default |-> default, asked |-> kind]
Text(id) == Member(id, "string", "")
Data(id) == Member(id, "binary", <<>>)
Interval(id) == Member(id, "u32", 0)

PublishMembers == {
    Text("response_topic"), Text("content_type"), Data("correlation_data"),
    Member("subscription_identifier", "u32", 0), Member("topic_alias", "u16", 0),
    [Interval("message_expiry_interval") EXCEPT !.asked = "u16"],
    Member("payload_format_indicator", "u8", 0)}

SharedMembers == {
    Text("authentication_method"), Data("authentication_data"),
    Interval("session_expiry_interval"), Member("maximum_packet_size", "u32", U32Max),
    Member("topic_alias_maximum", "u16", 0), Member("receive_maximum", "u16", U16Max)}

ConnectMembers == SharedMembers \union {
    Member("request_response_information", "bool", 0),
    Member("request_problem_information", "bool", 0)}

WillMembers == {
    Text("content_type"), Text("response_topic"), Data("correlation_data"),
    Interval("will_delay_interval"), Interval("message_expiry_interval"),
    Member("payload_format_indicator", "u8", 0)}

ConnackMembers == SharedMembers \union {
    Text("assigned_client_id"), Text("reason_string"), Text("response_information"),
    Text("server_reference"), Member("server_keep_alive", "u16", 0), Member("maximum_qos", "u8", 2),
    Member("retain_available", "bool", 1), Member("wildcard_subscriptions_available", "bool", 1),
    Member("subscription_identifiers_available", "bool", 1),
    Member("shared_subscription_available", "bool", 1)}

DisconnectMembers == {
    Interval("session_expiry_interval"), Text("reason_string"), Text("server_reference")}

SubscribeMembers == {Member("subscription_identifier", "u32", 0)}

UnsubscribeMembers == {}

\* Those of puback_base; suback and unsuback have the same.
AckMembers == {Text("reason_string")}
SubackMembers == {Text("reason_string")}
UnsubackMembers == {Text("reason_string")}

Acks == {"puback", "pubrec", "pubrel", "pubcomp"}
Requests == {"subscribe", "unsubscribe", "suback", "unsuback"}
Types == Acks \union Requests \union {"publish", "connect", "connack", "disconnect"}

\* The properties_t of a packet, and of the will in a connect.
Members(type) ==
    CASE type = "publish" -> PublishMembers
      [] type = "connect" -> ConnectMembers
      [] type = "will" -> WillMembers
      [] type = "connack" -> ConnackMembers
      [] type = "disconnect" -> DisconnectMembers
      [] type = "subscribe" -> SubscribeMembers
      [] type = "unsubscribe" -> UnsubscribeMembers
      [] type = "suback" -> SubackMembers
      [] type = "unsuback" -> UnsubackMembers
      [] type \in Acks -> AckMembers

TheMember(type, id) == CHOOSE m \in Members(type) : m.id = id
Ids(type) == {m.id : m \in Members(type)}

Defaults(type) ==
    [values |-> [id \in Ids(type) |-> TheMember(type, id).default], user |-> <<>>, unknown |-> <<>>]

\* The members that serialize adds a property for.
Added(type, props) ==
    {id \in Ids(type) :
        IF id = "authentication_data" THEN props.values["authentication_method"] # ""
        ELSE props.values[id] # TheMember(type, id).default}

\* Setting a property of another type is an exception.
Throws(type, props) ==
    \E id \in Added(type, props) : ~Compatible(Storage(id), TheMember(type, id).kind)

\* serialize of a properties_t.  A publish adds its user properties, and the
\* base adds them once more.  The order of the others matters to no reader.
WriteProperties(type, props) ==
    LET own == {Property(id, props.values[id]) : id \in Added(type, props)}
        user == [i \in DOMAIN props.user |-> Property("user_property", props.user[i])]
    IN FoldLeft(AddProperty, <<>>,
           SetToSeq(own) \o (IF type = "publish" THEN user ELSE <<>>) \o user \o props.unknown)

\* deserialize of a properties_t, property by property.
ReadProperty(type, props, property) ==
    CASE property.id \in Ids(type) ->
            [props EXCEPT !.values[property.id] =
                Cast(TheMember(type, property.id).kind,
                     Cast(TheMember(type, property.id).asked, property.value))]
      [] property.id = "user_property" -> [props EXCEPT !.user = Append(@, property.value)]
      [] OTHER -> [props EXCEPT !.unknown = Append(@, property)]

ReadProperties(type, list) ==
    FoldLeft(LAMBDA props, property : ReadProperty(type, props, property), Defaults(type), list)

\* Every property is what activate_id takes it for, and what is asked for
\* agrees.  Of no string was the length cut to two bytes.
Readable(type, list) ==
    \A i \in DOMAIN list :
        /\ list[i].kind = Storage(list[i].id)
        /\ list[i].kind = "string" => list[i].value # "long"
        /\ list[i].id \in Ids(type) => Compatible(TheMember(type, list[i].id).asked, list[i].kind)
-----------------------------------------------------------------------------
(* Bodies *)

Field(name, kind) == [name |-> name, kind |-> kind]

PublishLayout == <<Field("topic", "string"), Field("id", "u16"), Field("properties", "block")>>

AckLayout == <<Field("id", "u16"), Field("reason", "u8"), Field("properties", "block")>>

RequestLayout == <<Field("id", "u16"), Field("properties", "block")>>

ConnectLayout ==
    <<Field("flags", "u8"), Field("keep_alive", "u16"), Field("properties", "block"),
      Field("client_id", "string"), Field("will", "block"), Field("will_topic", "string"),
      Field("username", "string"), Field("password", "binary")>>

ConnackLayout == <<Field("flags", "u8"), Field("reason", "u8"), Field("properties", "block")>>

DisconnectLayout == <<Field("reason", "u8"), Field("properties", "block")>>

\* The fields of a body in their order, the optional ones included.
Layout(type) ==
    CASE type = "publish" -> PublishLayout
      [] type \in Acks -> AckLayout
      [] type \in Requests -> RequestLayout
      [] type = "connect" -> ConnectLayout
      [] type = "connack" -> ConnackLayout
      [] type = "disconnect" -> DisconnectLayout

\* What fills the rest of a body, one item after the other: a topic and its
\* options in a subscribe, a topic in an unsubscribe, bytes of a payload or
\* reason codes.
ItemKinds(type) ==
    CASE type = "subscribe" -> <<"string", "u8">>
      [] type = "unsubscribe" -> <<"string">>
      [] type \in {"publish", "suback", "unsuback"} -> <<"u8">>
      [] OTHER -> <<>>

Names(type) == {f.name : f \in ToSet(Layout(type))}
Blocks(type) == {f.name : f \in {g \in ToSet(Layout(type)) : g.kind = "block"}}
BlockType(type, name) == IF name = "will" THEN "will" ELSE type

\* What a field holds in a packet that nothing has been put into.
Empty(type, field) ==
    CASE field.kind = "block" -> Defaults(BlockType(type, field.name))
      [] field.name = "flags" -> {}
      [] Integral(field.kind) -> 0
      [] OTHER -> <<>>

\* A packet: its type, the quality of service in the header, its fields and
\* the items after them.
Blank(type) ==
    [type |-> type, qos |-> 0, items |-> <<>>,
     fields |-> [name \in Names(type) |->
        Empty(type, CHOOSE f \in ToSet(Layout(type)) : f.name = name)]]

\* The fields of a will, of a username and of a password in a connect.
Signed(flags) ==
    (IF "will" \in flags THEN {"will", "will_topic"} ELSE {})
    \union (flags \intersect {"username", "password"})

\* The fields that serialize_body writes, given what they hold.
PublishFieldsWritten(f) == Names("publish") \ (IF f["id"] = 0 THEN {"id"} ELSE {})

AckFieldsWritten(f) ==
    {"id"} \union
    {name \in {"reason", "properties"} :
        \/ f["reason"] # 0 \/ f["properties"].user # <<>>
        \/ f["properties"].values["reason_string"] # ""}

\* Username and password are optional, whatever the flags say.
ConnectFieldsWritten(f) ==
    {"flags", "keep_alive", "properties", "client_id"}
    \union (Signed(f["flags"]) \intersect {"will", "will_topic"})
    \union {name \in {"username", "password"} : f[name] # <<>>}

DisconnectFieldsWritten(f) ==
    {name \in Names("disconnect") : f["reason"] # 0 \/ f["properties"] # Defaults("disconnect")}

FieldsWritten(packet) ==
    CASE packet.type = "publish" -> PublishFieldsWritten(packet.fields)
      [] packet.type \in Acks -> AckFieldsWritten(packet.fields)
      [] packet.type = "connect" -> ConnectFieldsWritten(packet.fields)
      [] packet.type = "disconnect" -> DisconnectFieldsWritten(packet.fields)
      [] OTHER -> Names(packet.type)

\* The fields that deserialize reads, going by the header, by the flags and by
\* how many fields are left.
PublishFieldsRead(qos) == Names("publish") \ (IF qos = 0 THEN {"id"} ELSE {})

\* What an acknowledgement without properties is about is not read.
AckFieldsReadFault(n) == {name \in {"id", "reason", "properties"} : name = "id" \/ n > 2}

AckFieldsRead(n) ==
    {name \in {"id", "reason", "properties"} :
        (name = "reason" => n > 1) /\ (name = "properties" => n > 2)}

ConnectFieldsRead(flags) ==
    {"flags", "keep_alive", "properties", "client_id"} \union Signed(flags)

DisconnectFieldsRead(n) ==
    {name \in {"reason", "properties"} :
        (name = "reason" => n > 0) /\ (name = "properties" => n > 1)}

FieldsRead(type, qos, wire) ==
    CASE type = "publish" -> PublishFieldsRead(qos)
      [] type \in Acks -> AckFieldsRead(Len(wire))
      [] type = "connect" -> ConnectFieldsRead(wire[1].value)
      [] type = "disconnect" -> DisconnectFieldsRead(Len(wire))
      [] OTHER -> Names(type)

Selected(type, names) == SelectSeq(Layout(type), LAMBDA f : f.name \in names)

\* The items of a packet, field by field.
WireOfItems(packet) ==
    LET kinds == ItemKinds(packet.type) IN
    FlattenSeq([i \in DOMAIN packet.items |->
        [k \in DOMAIN kinds |-> [kind |-> kinds[k], value |-> packet.items[i][k]]]])

\* serialize_body.
WireOf(packet) ==
    LET fields == Selected(packet.type, FieldsWritten(packet)) IN
    [i \in DOMAIN fields |->
        LET f == fields[i]
            value == packet.fields[f.name] IN
        [kind |-> f.kind,
         value |-> CASE f.kind = "block" ->
                            WriteProperties(BlockType(packet.type, f.name), value)
                     [] Integral(f.kind) /\ f.name # "flags" -> Cast(f.kind, value)
                     [] OTHER -> value]]
    \o WireOfItems(packet)

\* Items are read until nothing is left; the last one has to be whole.
LegibleItems(type, rest) ==
    LET kinds == ItemKinds(type) IN
    IF kinds = <<>> THEN rest = <<>>
    ELSE /\ Len(rest) % Len(kinds) = 0
         /\ \A i \in DOMAIN rest : rest[i].kind = kinds[((i - 1) % Len(kinds)) + 1]

ItemsOf(type, rest) ==
    LET kinds == ItemKinds(type) IN
    IF kinds = <<>> THEN <<>>
    ELSE [i \in 1 .. Len(rest) \div Len(kinds) |->
            [k \in DOMAIN kinds |-> rest[(i - 1) * Len(kinds) + k].value]]

\* Every field is of the kind it is read as, and of no string was the length
\* cut to two bytes.
Legible(type, qos, wire) ==
    LET fields == Selected(type, FieldsRead(type, qos, wire)) IN
    /\ Len(fields) <= Len(wire)
    /\ \A i \in DOMAIN fields :
        /\ fields[i].kind = wire[i].kind
        /\ fields[i].kind = "block" => Readable(BlockType(type, fields[i].name), wire[i].value)
    /\ LegibleItems(type, SubSeq(wire, Len(fields) + 1, Len(wire)))

\* deserialize.
PacketOf(type, qos, wire) ==
    LET fields == Selected(type, FieldsRead(type, qos, wire))
        values == [name \in {fields[i].name : i \in DOMAIN fields} |->
            LET i == SelectInSeq(fields, LAMBDA f : f.name = name) IN
            IF fields[i].kind = "block"
            THEN ReadProperties(BlockType(type, name), wire[i].value) ELSE wire[i].value] IN
    [Blank(type) EXCEPT
        !.qos = qos,
        !.items = ItemsOf(type, SubSeq(wire, Len(fields) + 1, Len(wire))),
        !.fields = [name \in Names(type) |->
            IF name \in DOMAIN values THEN values[name] ELSE @[name]]]
-----------------------------------------------------------------------------
VARIABLES
    stage,    \* "new", "filling", "written", "refused", "read" or "misread"
    packet,   \* the packet that is filled in
    changes,  \* history: the properties filled in
    writer,   \* history: who wrote it, the code or a peer
    wire,     \* what was written
    got       \* what was read

vars == <<stage, packet, changes, writer, wire, got>>

Init ==
    /\ stage = "new" /\ changes = 0
    /\ packet = Blank("disconnect") /\ got = Blank("disconnect")
    /\ writer = "code" /\ wire = <<>>

\* A packet is made, fields other than properties included.  A publish has an
\* identifier if its quality of service calls for one, and the flags of a
\* connect go with what it holds, as in what client makes (ClientPackets).
Make(type, qos, reason, flags, items) ==
    /\ stage = "new" /\ stage' = "filling"
    /\ packet' = [Blank(type) EXCEPT
            !.qos = qos,
            !.items = items,
            !.fields = [name \in Names(type) |->
                CASE name = "id" -> IF type = "publish" /\ qos = 0 THEN 0 ELSE U16Max
                  [] name = "keep_alive" -> U16Max
                  [] name = "reason" -> reason
                  [] name = "flags" -> flags
                  [] name \in {"username", "password", "will_topic"} ->
                        IF name \in Signed(flags) THEN <<1>> ELSE <<>>
                  [] OTHER -> @[name]]]
    /\ UNCHANGED <<changes, writer, wire, got>>

MayChange(block) ==
    /\ stage = "filling" /\ changes < MaxChanges /\ changes' = changes + 1
    /\ block \in Blocks(packet.type)
    /\ block = "will" => "will" \in packet.fields["flags"]
    /\ UNCHANGED <<stage, writer, wire, got>>

ValuesOf(kind) ==
    CASE Integral(kind) -> {v \in Small : v <= Bound(kind)}
      [] kind = "string" -> {"", "text", "long"}
      [] OTHER -> {<<>>, <<1>>}

\* The i-th item, unlike the others.
Item(type, i) ==
    [k \in DOMAIN ItemKinds(type) |->
        IF ItemKinds(type)[k] = "string" THEN <<"topic", i>> ELSE i]

SetMember(block, id, value) ==
    /\ MayChange(block)
    /\ packet' = [packet EXCEPT !.fields[block].values[id] = value]

AddUser(block, pair) ==
    /\ MayChange(block)
    /\ packet' = [packet EXCEPT !.fields[block].user = Append(@, pair)]

\* One that the packet has no member for.
AddUnknown(block, value) ==
    /\ MayChange(block)
    /\ packet.type # "publish"
    /\ packet' = [packet EXCEPT !.fields[block].unknown = Append(@, Property("topic_alias", value))]

\* A packet is written; an exception leaves nothing to read.
Write ==
    /\ stage = "filling"
    /\ IF \E b \in Blocks(packet.type) : Throws(BlockType(packet.type, b), packet.fields[b])
       THEN stage' = "refused" /\ UNCHANGED wire
       ELSE stage' = "written" /\ wire' = WireOf(packet)
    /\ UNCHANGED <<packet, changes, writer, got>>

\* The wire of a peer: properties are those that are not at their defaults, as
\* MQTT 5 prescribes them.
PeerProperties(type, props) ==
    LET own == {id \in Ids(type) : props.values[id] # TheMember(type, id).default} IN
    SetToSeq({[id |-> id, kind |-> Prescribed(id), value |-> props.values[id]] : id \in own})
    \o [i \in DOMAIN props.user |-> Property("user_property", props.user[i])]
    \o props.unknown

\* Where MQTT 5 says so, the peer may leave out a reason and properties that
\* say nothing.
PeerMayLeaveOut(names) ==
    /\ packet.type \in Acks \union {"disconnect"}
    /\ "reason" \in names => "properties" \in names
    /\ \A name \in names : packet.fields[name] = Blank(packet.type).fields[name]

PeerWrites(names) ==
    LET present ==
            CASE packet.type = "publish" -> Names("publish") \ (IF packet.qos = 0 THEN {"id"} ELSE {})
              [] packet.type = "connect" ->
                    {"flags", "keep_alive", "properties", "client_id"}
                    \union Signed(packet.fields["flags"])
              [] OTHER -> Names(packet.type) \ names
        fields == Selected(packet.type, present) IN
    /\ stage = "filling"
    /\ names = {} \/ PeerMayLeaveOut(names)
    /\ stage' = "written" /\ writer' = "peer"
    /\ wire' = [i \in DOMAIN fields |->
            LET f == fields[i] IN
            [kind |-> f.kind,
             value |-> IF f.kind = "block"
                       THEN PeerProperties(BlockType(packet.type, f.name), packet.fields[f.name])
                       ELSE packet.fields[f.name]]]
             \o WireOfItems(packet)
    /\ UNCHANGED <<packet, changes, got>>

Read ==
    /\ stage = "written"
    /\ IF Legible(packet.type, packet.qos, wire)
       THEN stage' = "read" /\ got' = PacketOf(packet.type, packet.qos, wire)
       ELSE stage' = "misread" /\ UNCHANGED got
    /\ UNCHANGED <<packet, changes, writer, wire>>

Next ==
    \/ \E type \in Types :
        \E qos \in IF type = "publish" THEN 0 .. 2 ELSE {0},
           reason \in IF "reason" \in Names(type) THEN {0, 4} ELSE {0},
           flags \in IF type = "connect" THEN SUBSET {"will", "username", "password"} ELSE {{}},
           n \in IF ItemKinds(type) = <<>> THEN {0} ELSE 0 .. MaxItems :
            Make(type, qos, reason, flags, [i \in 1 .. n |-> Item(type, i)])
    \/ \E block \in {"properties", "will"} :
        \/ \E m \in Members(BlockType(packet.type, block)) :
            \E value \in ValuesOf(m.kind) : SetMember(block, m.id, value)
        \/ \E pair \in {<<"key", "one">>, <<"key", "two">>} : AddUser(block, pair)
        \/ \E value \in {1, 2} : AddUnknown(block, value)
    \/ Write
    \/ \E names \in SUBSET {"reason", "properties"} : PeerWrites(names)
    \/ Read

Spec == Init /\ [][Next]_vars
-----------------------------------------------------------------------------
(* Properties *)

AllBlocks(P(_, _)) ==
    \A b \in Blocks(packet.type) : P(BlockType(packet.type, b), packet.fields[b])

\* No string is too long for its two bytes of length, of which the program
\* writes the lower two (string.hpp:38).
ShortStrings(type, props) ==
    \A id \in Ids(type) : Storage(id) = "string" => props.values[id] # "long"

\* What no reader gets back: a long string; data of an authentication without a
\* method (connect.hpp:74); a publish with a long expiry (publish.hpp:71), with
\* a user property (publish.hpp:101) or with a subscription identifier
\* (properties.hpp:158); and in an acknowledgement a property that the packet
\* has no member for, if nothing else is said (publish.hpp:284).
Whole(type, props) ==
    /\ ShortStrings(type, props)
    /\ "authentication_data" \in Ids(type) /\ props.values["authentication_method"] = ""
            => props.values["authentication_data"] = <<>>
    /\ type = "publish" =>
            props.values["message_expiry_interval"] <= U16Max /\ props.user = <<>>
    /\ type \in Acks /\ props.unknown # <<>> =>
            \/ packet.fields["reason"] # 0 \/ props.user # <<>>
            \/ props.values["reason_string"] # ""
    /\ Len(props.unknown) <= 1

\* A packet that was written reads back as it was, whatever it holds, but for
\* the six cases above: in whatever combination fields and properties are
\* there, the reader finds where each begins, and no value changes on the way
\* through the types it is stored in.
ReadsBack ==
    stage \in {"read", "misread"} /\ writer = "code" /\ AllBlocks(Whole) =>
        stage = "read" /\ got = packet

\* So does one that a peer writes in any of the forms MQTT 5 allows, also with a
\* property that the program has no member for, but for a
\* subscription identifier and a long expiry.
Prescribable(type, props) ==
    /\ ShortStrings(type, props)
    /\ "subscription_identifier" \in Ids(type) => props.values["subscription_identifier"] = 0
    /\ type = "publish" => props.values["message_expiry_interval"] <= U16Max

PeerIsUnderstood ==
    stage \in {"read", "misread"} /\ writer = "peer" /\ AllBlocks(Prescribable) =>
        stage = "read" /\ got = packet

\* What is written is what MQTT 5 lets a packet hold: a property other than a
\* user property once at most, each of its type, and data of an authentication
\* with a method only.
OnlyPrescribedIsWritten ==
    stage = "written" /\ writer = "code" =>
        \A i \in DOMAIN wire : wire[i].kind = "block" =>
            LET list == wire[i].value IN
            /\ \A j, k \in DOMAIN list :
                j # k /\ list[j].id = list[k].id => list[j].id = "user_property"
            /\ \A j \in DOMAIN list :
                /\ list[j].kind = Prescribed(list[j].id)
                /\ list[j].id = "authentication_data" =>
                    \E k \in DOMAIN list : list[k].id = "authentication_method"
=============================================================================
