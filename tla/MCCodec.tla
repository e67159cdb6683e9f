------------------------------ MODULE MCCodec ------------------------------
(* A small instance of Codec: every text of up to three pieces and some
   longer ones, without type, with one that has no boundary, and with MIME
   parts; and an order for every kind of control message. *)
EXTENDS Codec

CONSTANTS id1, id2, n1, n2, n3, vcard

MCPath == [h \in 0 .. 3 |-> CASE h = 0 -> id1 [] h = 1 -> n1 [] h = 2 -> n2 [] h = 3 -> n3]

MCTexts ==
    UNION {[1 .. n -> Pieces] : n \in 0 .. 3}
    \union {<<"text", "nl", "nl", "dashes", "nl">>,
            <<"text", "nl", "dashes", "percent", "nl">>,
            <<"percent", "nl", "nl", "dashes", "nl">>,
            <<"text", "dashes", "nl", "nl">>}

MCParts ==
    LET plain == Part("text", <<>>)
    IN  {<<>>, <<plain>>, <<plain, plain>>, <<plain, [plain EXCEPT !.coding = "quoted"]>>}

(* The last is a sendme that some other program has spelt right. *)
MCMessages ==
    [type : {"none", "plain"}, text : MCTexts, control : {<<>>}, parts : {<<>>}]
    \union [type : {"mixed"}, text : MCTexts, control : {<<>>}, parts : MCParts]
    \union {[type |-> "none", text |-> <<"nl">>, control |-> <<"sendme", id1>>, parts |-> <<>>]}

MCOrders ==
    [what : {"newgroup"}, words : {<<"">>, <<"a">>, <<"a", "b">>}, card : {NoCard, vcard}]
    \union [what : {"peer"}, words : {<<n1>>, <<n2>>}, card : {vcard}]
    \union [what : {"checkgroups", "sendme"}, words : {<<"chat">>}, card : {NoCard}]
=============================================================================
