-------------------------- MODULE MCClientPackets --------------------------
\* An instance of ClientPackets for TLC: for each way in which an argument
\* reaches the message, some that set the same field.
EXTENDS ClientPackets

MCArguments ==
    {Argument("enumeration", "qos", 0), Argument("struct", "qos", 2),
     Argument("callable", "qos", 0), Argument("callable", "qos", 1),
     Argument("callable", "duplicate", TRUE), Argument("struct", "retain", TRUE),
     Argument("struct", "response_topic", "text"), Argument("callable", "response_topic", ""),
     Argument("struct", "topic_alias", 1), Argument("struct", "correlation_data", <<1>>),
     Argument("struct", "message_expiry_interval", U16Max),
     Argument("struct", "payload_format_indicator", 1),
     Argument("enumeration", "payload_format_indicator", 0)}

\* A will with one of its properties set, or with none.
Wills ==
    LET defaults == Defaults("will").values
        someValues == {defaults} \union
            {[defaults EXCEPT ![m.id] = CASE m.kind = "string" -> "text"
                                          [] m.kind = "binary" -> <<1>>
                                          [] OTHER -> 1] : m \in WillMembers} IN
    {[given |-> TRUE, topic |-> <<1>>, values |-> values, user |-> user,
      retain |-> retain, qos |-> qos] :
        values \in someValues, user \in {<<>>, << <<"key", "one">> >>},
        retain \in BOOLEAN, qos \in 0 .. 2}

NoWill ==
    [given |-> FALSE, topic |-> <<>>, values |-> Defaults("will").values, user |-> <<>>,
     retain |-> FALSE, qos |-> 0]

MCOptions ==
    [client_id : {<<1>>}, keep_alive : {0, U16Max}, username : {<<>>, <<1>>},
     password : {<<>>, <<1>>}, receive_maximum : {1, U16Max}, clean_start : BOOLEAN,
     last_will : Wills \union {NoWill}]
=============================================================================
