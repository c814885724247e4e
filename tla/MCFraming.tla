----------------------------- MODULE MCFraming -----------------------------
\* Instances of Framing for TLC.
EXTENDS Framing, TLC

\* Type 3 is not known.  Bodies without a byte, with an integer that looks like
\* a header, with a string and a rest, and with a string of 16 bytes, which is
\* one more than two bytes of two bits can say.
SomeLayouts == 0 :> <<>> @@ 1 :> <<"u32", "rest">> @@ 2 :> <<"string", "u16">>

Packet(type, fields) == [first |-> type, fields |-> fields]
Of(kind, value) == [kind |-> kind, value |-> value]

SomePackets ==
    {Packet(0, <<>>),
     Packet(1, <<Of("u32", 29), Of("rest", <<3>>)>>),
     Packet(2, <<Of("string", <<2, 0, 1, 3>>), Of("u16", 7)>>),
     Packet(2, <<Of("string", [i \in 1 .. 16 |-> 0]), Of("u16", 7)>>),
     Packet(3, <<Of("u8", 1)>>)}
=============================================================================
