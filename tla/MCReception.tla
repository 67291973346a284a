---------------------------- MODULE MCReception ----------------------------
(***************************************************************************)
(* A small instance of Reception.                                          *)
(***************************************************************************)
EXTENDS Reception

\* Payloads: none, a byte, lines, and one that looks like more items.
SomePayloads ==
    {<<>>, <<Byte("x")>>, <<NL, Byte("x")>>,
     <<NL>> \o JSON([type |-> "event", length |-> 0]) \o <<NL>>}

SomeItems ==
    {item \in [type : {"event", "attachment", ""}, declared : BOOLEAN, payload : SomePayloads] :
        item.type = "attachment" => item.declared}

\* All envelopes of up to two items; the longest exceed MaxBody, so that
\* they are cut at each of their symbols.
SomeEnvelopes ==
    {e \in [items : SeqOf(SomeItems, 2), ending : {<<>>, <<NL>>, <<NL, NL>>}] :
        Writable(e.items)}

SomeTexts == {<<>>, <<" ">>, <<"A">>, <<" ", "A">>, <<"B">>, <<" ", "B">>, <<"A", ": ", "B">>}

SomeExceptions ==
    {<<>>} \cup {<<[type |-> t, value |-> v]>> : t, v \in {<<>>, <<"A">>, <<" ", "A">>, <<"B">>}}
           \cup {<<[type |-> <<"A">>, value |-> <<"B">>], [type |-> <<"B">>, value |-> <<"A">>]>>}

\* Events with all combinations of a few of their fields.
Evt(fingerprint, exception, message, logMessage, culprit, transaction, platform) ==
    [fingerprint |-> fingerprint, exception |-> exception, message |-> message,
     logMessage |-> logMessage, formatted |-> <<>>, culprit |-> culprit,
     transaction |-> transaction, platform |-> platform]

SomeEvents ==
    {Evt(f, <<>>, <<>>, <<>>, <<>>, <<>>, <<>>) : f \in SeqOf({<<>>, <<"A">>, <<" ", "A">>, <<"A", ": ", "B">>}, 2)}
    \cup {Evt(<<>>, ex, m, <<>>, c, <<>>, <<>>) :
            ex \in SomeExceptions, m \in {<<>>, <<"A">>}, c \in {<<>>, <<"A">>, <<" ">>}}
    \cup {Evt(<<>>, <<>>, m, l, <<>>, t, p) :
            m, l \in {<<>>, <<"A">>, <<"A", ": ", "B">>}, t \in {<<>>, <<" ", "B">>},
            p \in {<<>>, <<" ">>, <<"B">>}}

Symmetric == Permutations(Slots)
=============================================================================
