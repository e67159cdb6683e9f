------------------------------ MODULE Control ------------------------------
(***************************************************************************)
(* Control messages: what the Create functions write into one, and what    *)
(* CheckControl reads out of it at every node.  The words of a Control     *)
(* header and of a part, and the labels of a group name, are what          *)
(* strings.Split makes of them; a description has at least one word, the   *)
(* empty one.                                                              *)
(***************************************************************************)
EXTENDS Naturals, Sequences

CONSTANT NoCard

Part(type, words) == [type |-> type, coding |-> "8bit", words |-> words]

Mail(control, parts) ==
    [type |-> "mixed", text |-> <<"text">>, control |-> control, parts |-> parts]

Moderated(posting) == IF posting = "permitted" THEN <<"moderated">> ELSE <<>>

(* Variant: the flag is left out of the Control header. *)
CreateUnflagged(owner, rest, description, posting, card) ==
    LET name == <<owner>> \o rest
    IN  Mail(<<"newgroup", name>>,
             <<Part("groupinfo", <<name>> \o description \o Moderated(posting)), Part("text", <<>>)>>
             \o IF card = NoCard THEN <<>> ELSE <<Part("vcard", <<card>>)>>)

CreateNewsGroupMail(owner, rest, description, posting, card) ==
    LET name == <<owner>> \o rest
    IN  Mail(<<"newgroup", name>> \o Moderated(posting),
             <<Part("groupinfo", <<name>> \o description \o Moderated(posting)), Part("text", <<>>)>>
             \o IF card = NoCard THEN <<>> ELSE <<Part("vcard", <<card>>)>>)

CreatePeerGroup(owner, peer, card) ==
    CreateNewsGroupMail(owner, <<"peers", peer>>, <<"peer", "group">>, "permitted", card)

CreateCheckgroups(peer, groups) ==
    Mail(<<"checkgroups", peer>>, <<Part("checkgroups", groups), Part("text", <<>>)>>)

(* The verb is misspelt, and the groups are not where CheckControl looks. *)
CreateSendme(peer, groups, options) ==
    Mail(<<"semdme", peer>>,
         <<Part("newsfeed", groups), Part("checkgroups", options), Part("text", <<>>)>>)
-----------------------------------------------------------------------------
Call(fn, about, words, card) == [fn |-> fn, about |-> about, words |-> words, card |-> card]

(* The words of the last part of that type. *)
Words(parts, type) ==
    LET those == {i \in DOMAIN parts : parts[i].type = type}
    IN  IF those = {} THEN <<>>
        ELSE parts[CHOOSE i \in those : \A j \in those : j <= i].words

(* The line of the group starts with its name, and ends with the flag if
   there is one; the description is taken to start one word later than it
   does. *)
NewGroupCall(m) ==
    LET data == Words(m.parts, "groupinfo")
        flags == IF Len(m.control) = 3 THEN 1 ELSE 0
        card == Words(m.parts, "vcard")
    IN  Call("NewGroup", m.control[2], SubSeq(data, 3, Len(data) - flags),
             IF card = <<>> THEN NoCard ELSE card[1])

AddPeerCall(m, session) ==
    LET name == m.control[2]
    IN  IF Len(name) = 3 /\ name[1] = session /\ name[2] = "peers"
        THEN <<Call("AddPeer", <<name[3]>>, <<>>, NoCard)>>
        ELSE <<>>

(* What CheckControl calls, in order, on a message from that author; a
   cancel is in Store. *)
CheckControl(m, from, session) ==
    IF m.control = <<>> THEN <<>>
    ELSE CASE m.control[1] = "newgroup" /\ m.control[2][1] = from ->
                <<NewGroupCall(m)>> \o AddPeerCall(m, session)
           [] m.control[1] = "sendme" ->
                <<Call("Sendme", <<from>>, Words(m.parts, "newsfeed"), NoCard)>>
           [] OTHER -> <<>>
=============================================================================
