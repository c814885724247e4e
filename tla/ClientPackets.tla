--------------------------- MODULE ClientPackets ---------------------------
(***************************************************************************)
(* The two packets that mqtt5::client makes from what the user asks for:   *)
(* the CONNECT from the options of a handshaker, and the PUBLISH from the  *)
(* arguments of a publisher.  What becomes of them on the wire is the      *)
(* matter of Packets, which this module extends.                           *)
(*                                                                         *)
(* The arguments of a publisher are options, which change the message at   *)
(* once, and modifiers, which are kept and change it when the operation is *)
(* started.  A modifier may be anything that can be called with a publish; *)
(* here it sets one field.  Not modelled is one that sets the packet       *)
(* identifier.                                                             *)
(*                                                                         *)
(* Definitions named ...Fault are not the program: each is what a likely   *)
(* slip in the definition below it would be, and a property rules it out.  *)
(***************************************************************************)
EXTENDS Packets

CONSTANTS
    Arguments,     \* arguments of a publisher that are tried
    MaxArguments,  \* bound on the arguments of one publisher
    Options        \* connect_options that are tried

ASSUME ArgumentsAssumption == MaxArguments \in Nat

VARIABLES
    args,   \* history: the arguments of the publisher
    flags,  \* header_flags of the message, the quality of service apart
    late,   \* modifying_function_: the modifiers that are still to be called
    asked   \* connect_opts_; or none

making == <<args, flags, late, asked>>
clientVars == <<vars, making>>

None == [client_id |-> <<>>]
NoFlags == [duplicate |-> FALSE, retain |-> FALSE]

ClientInit ==
    /\ Init
    /\ args = <<>> /\ flags = NoFlags /\ late = <<>>
    /\ asked = None
-----------------------------------------------------------------------------
(* Publishers *)

\* An argument sets the field `id' to `value'.  Its form is that of a struct of
\* publish_options, an enumeration, or something else that can be called.
Argument(form, id, value) == [form |-> form, id |-> id, value |-> value]

\* The structs that is_publish_option lacks are taken for modifiers.
Unlisted == {"correlation_data", "message_expiry_interval", "payload_format_indicator"}

\* add_one: whether an argument joins the modifiers or the options.
IsLate(a) == a.form = "callable" \/ (a.form = "struct" /\ a.id \in Unlisted)

\* A message is a packet and the flags of its header.
Message(p, f) == [packet |-> p, flags |-> f]

\* set_quality_of_service.
SetQualityOfService(m, qos) ==
    [m EXCEPT !.packet.qos = qos, !.flags.duplicate = (qos # 0 /\ @)]

\* What an option or a modifier does to the message.
Apply(m, a) ==
    CASE a.id = "qos" -> SetQualityOfService(m, a.value)
      [] a.id \in {"duplicate", "retain"} -> [m EXCEPT !.flags[a.id] = a.value]
      [] OTHER ->
            [m EXCEPT !.packet.fields["properties"].values[a.id] =
                Cast(TheMember("publish", a.id).kind, a.value)]

ApplyAll(m, list) == FoldLeft(Apply, m, list)

\* Modifiers are called with the options.
SeparateFault(list) == [options |-> list, modifiers |-> <<>>]

\* separate_options_modifiers.
Separate(list) ==
    [options |-> SelectSeq(list, LAMBDA a : ~IsLate(a)), modifiers |-> SelectSeq(list, IsLate)]

\* publisher() and reusable_publisher().
Publisher(list) ==
    /\ stage = "new" /\ stage' = "drafted"
    /\ args' = list
    /\ LET oam == Separate(list)
           m == ApplyAll(Message(Blank("publish"), flags), oam.options) IN
        /\ packet' = m.packet /\ flags' = m.flags
        /\ late' = oam.modifiers
    /\ UNCHANGED <<changes, writer, wire, got, asked>>

\* publish_sender::operation::start, up to send_message.  The quality of
\* service the modifiers leave decides whether there is an identifier.
StartPublisher ==
    /\ stage = "drafted" /\ stage' = "filling"
    /\ LET m == ApplyAll(Message(packet, flags), late) IN
        /\ packet' = [m.packet EXCEPT !.fields["id"] = IF m.packet.qos = 0 THEN 0 ELSE U16Max]
        /\ flags' = m.flags
    /\ late' = <<>> /\ changes' = MaxChanges
    /\ UNCHANGED <<args, writer, wire, got, asked>>
-----------------------------------------------------------------------------
(* Handshakers *)

FlagIf(condition, flag) == IF condition THEN {flag} ELSE {}

\* The flag of a username does not look at it.
ConnectFlagsFault(o) ==
    FlagIf(o.last_will.given, "will") \union {"username"}
    \union FlagIf(o.password # <<>>, "password") \union FlagIf(~o.clean_start, "clean_start")

\* The flags of the CONNECT; clean_start the wrong way round.
ConnectFlags(o) ==
    FlagIf(o.last_will.given, "will")
    \union FlagIf(o.last_will.given /\ o.last_will.retain, "will_retain")
    \union FlagIf(o.last_will.given /\ o.last_will.qos = 1, "will_qos_1")
    \union FlagIf(o.last_will.given /\ o.last_will.qos = 2, "will_qos_2")
    \union FlagIf(o.username # <<>>, "username")
    \union FlagIf(o.password # <<>>, "password")
    \union FlagIf(~o.clean_start, "clean_start")

\* send_connect, the user properties of the will left out.
SendConnect(o) ==
    /\ stage = "new" /\ stage' = "filling"
    /\ asked' = o
    /\ LET will == o.last_will IN
        packet' = [Blank("connect") EXCEPT
            !.fields["flags"] = ConnectFlags(o),
            !.fields["keep_alive"] = o.keep_alive,
            !.fields["client_id"] = o.client_id,
            !.fields["username"] = o.username,
            !.fields["password"] = o.password,
            !.fields["properties"].values["receive_maximum"] = o.receive_maximum,
            !.fields["will_topic"] = IF will.given THEN will.topic ELSE @,
            !.fields["will"].values = IF will.given THEN will.values ELSE @]
    /\ changes' = MaxChanges
    /\ UNCHANGED <<writer, wire, got, args, flags, late>>

ClientNext ==
    \/ Next /\ UNCHANGED making
    \/ \E list \in SeqOf(Arguments, MaxArguments) : Publisher(list)
    \/ StartPublisher
    \/ \E o \in Options : SendConnect(o)

ClientSpec == ClientInit /\ [][ClientNext]_clientVars
-----------------------------------------------------------------------------
(* Properties *)

\* No struct that is taken for a modifier sets a field that another argument
\* sets as well: it would come after that one, wherever it stands.
Unambiguous ==
    \A i, j \in DOMAIN args :
        i # j /\ args[i].form = "struct" /\ args[i].id \in Unlisted => args[i].id # args[j].id

\* The arguments by the order in which they should count: those in the later
\* position, and the callables, which see what the options have made.
Outranks(i, j) ==
    IF (args[i].form = "callable") = (args[j].form = "callable") THEN i > j
    ELSE args[i].form = "callable"

\* The argument among those at `set' that counts; a default if there is none.
Counts(set, default) ==
    IF set = {} THEN default
    ELSE args[CHOOSE i \in set : \A j \in set \ {i} : Outranks(i, j)].value

Setting(id) == {i \in DOMAIN args : args[i].id = id}

\* The publish the server reads is the one the arguments describe: of several
\* that set a field the last one counts, and modifiers have the last word, also
\* on the quality of service, with which identifier and duplicate flag agree.
OptionsTakeEffect ==
    args # <<>> /\ stage \in {"read", "misread"} /\ writer = "code" /\ AllBlocks(Whole)
    /\ Unambiguous =>
        /\ stage = "read"
        /\ got.qos = Counts(Setting("qos"), 0)
        /\ flags.retain = Counts(Setting("retain"), FALSE)
        /\ \A id \in Ids("publish") :
            got.fields["properties"].values[id] =
                Counts(Setting(id), TheMember("publish", id).default)
        /\ flags.duplicate =
            LET clearing == {i \in Setting("qos") : args[i].value = 0}
                last == {i \in clearing \union Setting("duplicate") :
                            \A j \in clearing \union Setting("duplicate") : i = j \/ Outranks(i, j)} IN
            \E i \in last : args[i].id = "duplicate" /\ args[i].value

\* What a server makes of a CONNECT.
Understood(c) ==
    LET f == c.fields
        will == "will" \in f["flags"] IN
    [client_id |-> f["client_id"], keep_alive |-> f["keep_alive"],
     username |-> f["username"], password |-> f["password"],
     receive_maximum |-> f["properties"].values["receive_maximum"],
     clean_start |-> "clean_start" \in f["flags"],
     last_will |->
        [given |-> will, topic |-> f["will_topic"], values |-> f["will"].values,
         user |-> f["will"].user, retain |-> "will_retain" \in f["flags"],
         qos |-> CASE "will_qos_1" \in f["flags"] -> 1
                   [] "will_qos_2" \in f["flags"] -> 2
                   [] OTHER -> 0]]

\* The server reads from the CONNECT what the user asked for, whatever of it is
\* left out: but for clean start, of which it reads the opposite, and the user
\* properties of the will, which it never sees.
ConnectAsAsked ==
    asked # None /\ stage \in {"read", "misread"} /\ writer = "code" =>
        /\ stage = "read"
        /\ Understood(got) = [asked EXCEPT !.clean_start = ~@, !.last_will.user = <<>>]
=============================================================================
