------------------------------- MODULE Codec -------------------------------
(***************************************************************************)
(* One message from its author to the nodes it is relayed through: signed  *)
(* (Sign), written (writeRaw), sent, parsed (ParseBody), verified (Verify),*)
(* stored as it would be written, and from there parsed and written again  *)
(* for the next node.                                                      *)
(*                                                                         *)
(* A body is a preamble and the MIME parts after it.  A preamble is a      *)
(* sequence of pieces: "nl" is the end of a line (carriage returns are     *)
(* removed and put back by every writeRaw), "percent" a piece with a       *)
(* percent sign, "dashes" one that begins with "--" and is no boundary.    *)
(* writeRaw uses the preamble as a format without arguments: every time,   *)
(* what it writes for a percent sign is something else, with a percent     *)
(* sign in it, so a preamble is its pieces and how often they have been    *)
(* expanded.  The signed headers are the same everywhere, Control is the   *)
(* only one that is read; the others are not signed and take no part.      *)
(***************************************************************************)
EXTENDS KeyTool, Control, SequencesExt

CONSTANTS
    Node,       \* tor ids of nodes
    LastHop,    \* the length of the path
    Path,       \* its nodes; Path[0] is the author's
    Messages,   \* what authors write: [type, text, control, parts]
    Orders,     \* what the Create functions are asked for
    MaxInstalls \* bound: keys given to the author's tool

Pieces == {"nl", "text", "percent", "dashes"}

IsParts(parts) ==
    /\ parts \in Seq(Range(parts))
    /\ \A i \in DOMAIN parts :
          /\ parts[i] = [type |-> parts[i].type, coding |-> parts[i].coding, words |-> parts[i].words]
          /\ parts[i].coding \in {"8bit", "quoted"}

(* Only a type with a boundary has parts. *)
IsMessage(m) ==
    /\ m.type \in {"none", "plain", "mixed"} /\ m.text \in Seq(Pieces)
    /\ IsParts(m.parts)
    /\ m.parts # <<>> => m.type = "mixed"

ASSUME CodecAssumption ==
    /\ LastHop \in Nat \ {0} /\ MaxInstalls \in Nat
    /\ Path \in [0 .. LastHop -> Node] /\ Path[0] \in Id
    /\ \A m \in Messages : IsMessage(m)
    /\ \A o \in Orders : /\ o.what \in {"newgroup", "peer", "checkgroups", "sendme"}
                         /\ o.words \in Seq(Range(o.words)) /\ o.words # <<>>

VARIABLES
    installs,  \* keys given so far
    written,   \* what the author wrote
    route,     \* "api": Client.Post or a Create function; "reader": TCP
    phase,     \* what is next
    hop,       \* the node the message is at
    wire,      \* what it receives, or has stored: [type, control, pre, parts]
    tool,      \* the MessageTool at work
    signature, \* [key, data]; From and Approved name the key
    called,    \* what CheckControl has called at the node
    order      \* what a Create function was asked for (history)

message == <<written, route, phase, hop, wire, tool, signature, called, order>>
vars == <<keyVars, installs, message>>

NoMessage == [type |-> "none", text |-> <<>>, control |-> <<>>, parts |-> <<>>]
Plain0(text) == [text |-> text, times |-> 0]
NoBody == [type |-> "none", control |-> <<>>, pre |-> Plain0(<<>>), parts |-> <<>>]
NoOrder == [what |-> "none", words |-> <<>>, card |-> NoCard]
Device == Path[0]
NoSignature == [key |-> Nil, data |-> NoBody]

Init ==
    /\ KeyInit /\ installs = 0
    /\ written = NoMessage /\ route = "none" /\ phase = "write" /\ hop = 0
    /\ wire = NoBody /\ tool = NoBody /\ signature = NoSignature
    /\ called = <<>> /\ order = NoOrder
-----------------------------------------------------------------------------
(* writeRaw. *)

Expanded(pre) ==
    IF Contains(pre.text, "percent") THEN [pre EXCEPT !.times = @ + 1] ELSE pre

EndsLine(text) == \A i \in DOMAIN text : i = Len(text) => text[i] = "nl"

(* Variant: two parts are taken for none. *)
writeRawThree(m) ==
    [m EXCEPT !.pre = Expanded(@), !.parts = IF Len(@) > 2 THEN @ ELSE <<>>]

(* A single part is not written. *)
writeRaw(m) ==
    [m EXCEPT !.pre = Expanded(@), !.parts = IF Len(@) > 1 THEN @ ELSE <<>>]

(* The NNTP client ends the last line of what it sends.  Before a boundary
   there is always an end of line of its own. *)
Sent(w) ==
    IF w.parts # <<>> \/ EndsLine(w.pre.text) THEN w
    ELSE [w EXCEPT !.pre.text = Append(@, "nl")]
-----------------------------------------------------------------------------
(* ParseBody. *)

(* The first piece that begins a line and starts with the boundary, which
   is "--" when the type has none; 0 if there is no such piece. *)
CutAt(type, text) ==
    LET starts == {i \in DOMAIN text : /\ type = "plain" /\ text[i] = "dashes"
                                       /\ i = 1 \/ text[i - 1] = "nl"}
    IN  IF starts = {} THEN 0 ELSE CHOOSE i \in starts : \A j \in starts : i <= j

(* What comes before the first boundary, without the end of its last line. *)
Before(pre, i) ==
    LET kept == SubSeq(pre.text, 1, i - 2)
    IN  [text |-> kept, times |-> IF Contains(kept, "percent") THEN pre.times ELSE 0]

(* The multipart reader decodes a quoted-printable part. *)
Decoded(parts) == [i \in DOMAIN parts |-> [parts[i] EXCEPT !.coding = "8bit"]]

(* A boundary in the first line: the last byte of an empty preamble. *)
ParsePanics(w) == CutAt(w.type, w.pre.text) = 1

ParseBody(w) ==
    LET cut == CutAt(w.type, w.pre.text)
    IN  IF cut = 0 THEN [w EXCEPT !.parts = Decoded(@)]
        ELSE [w EXCEPT !.pre = Before(@, cut), !.parts = <<>>]
-----------------------------------------------------------------------------
(* The author's keys. *)

UseKey == phase = "write" /\ Use /\ UNCHANGED <<installs, message>>

GiveKey ==
    /\ phase = "write" /\ installs < MaxInstalls
    /\ Give
    /\ installs' = installs + 1
    /\ UNCHANGED message

(* A program composes a MessageTool. *)
Compose(m) ==
    /\ phase = "write"
    /\ written' = m /\ route' = "api"
    /\ tool' = [type |-> m.type, control |-> m.control, pre |-> Plain0(m.text), parts |-> m.parts]
    /\ phase' = "sign"
    /\ answer' = NoAnswer
    /\ UNCHANGED <<keyType, field, installed, spoiled, installs, hop, wire, signature, called>>

Own(m) == Compose(m) /\ UNCHANGED order

(* Or has a control message made for it, in the name of its key. *)
Create(o) ==
    /\ Held(Form) \in Id
    /\ order' = o
    /\ CASE o.what = "newgroup" ->
              \E p \in {"permitted", "not permitted"} :
                  Compose(CreateNewsGroupMail(Held(Form), <<"chat">>, o.words, p, o.card))
         [] o.what = "peer" -> Compose(CreatePeerGroup(Held(Form), o.words[1], o.card))
         [] o.what = "checkgroups" -> Compose(CreateCheckgroups(Device, o.words))
         [] o.what = "sendme" -> Compose(CreateSendme(Device, o.words, <<>>))

(* The body a news reader sends; parts begin on a line of their own. *)
Preamble(m) == IF m.parts = <<>> THEN m.text ELSE Front(m.text)
FromReader(m) ==
    [type |-> m.type, control |-> m.control, pre |-> Plain0(Preamble(m)), parts |-> m.parts]
ReaderPanics(m) == (m.text = <<>> /\ m.parts # <<>>) \/ CutAt(m.type, m.text) = 1

(* It is parsed by Post, which then signs it with the device key. *)
ReaderPosts(m) ==
    /\ phase = "write" /\ installs = 0
    /\ EndsLine(m.text)
    /\ written' = m /\ route' = "reader"
    /\ IF ReaderPanics(m)
       THEN phase' = "panic" /\ UNCHANGED tool
       ELSE phase' = "sign" /\ tool' = ParseBody(FromReader(m))
    /\ UNCHANGED <<keyVars, installs, hop, wire, signature, called, order>>

(* The key a message is signed with. *)
Signer == IF route = "reader" THEN Device ELSE Held(Secret)

Sign ==
    /\ phase = "sign" /\ Signer \in Id
    /\ signature' = [key |-> Signer, data |-> writeRaw(tool)]
    /\ \/ /\ route = "api"
          /\ wire' = Sent(writeRaw(tool)) /\ phase' = "arrives"
       \/ /\ route = "reader"
          /\ phase' = "verify" /\ UNCHANGED wire
    /\ UNCHANGED <<keyVars, installs, written, route, hop, tool, called, order>>

(* The tool has no private key, or panics over it: nothing is sent. *)
SignFails ==
    /\ phase = "sign" /\ Signer \notin Id
    /\ phase' = IF Signer = Panic THEN "panic" ELSE "write"
    /\ written' = NoMessage /\ route' = "none" /\ tool' = NoBody /\ order' = NoOrder
    /\ UNCHANGED <<keyVars, installs, hop, wire, signature, called>>
-----------------------------------------------------------------------------
(* A node. *)

Parse ==
    /\ phase = "arrives"
    /\ \/ ParsePanics(wire) /\ phase' = "panic" /\ UNCHANGED tool
       \/ ~ParsePanics(wire) /\ phase' = "verify" /\ tool' = ParseBody(wire)
    /\ UNCHANGED <<keyVars, installs, written, route, hop, wire, signature, called, order>>

(* Variant: the signature is not compared. *)
VerifyAnything ==
    /\ phase = "verify"
    /\ phase' = "control"
    /\ UNCHANGED <<keyVars, installs, written, route, hop, wire, tool, signature, called, order>>

Verify ==
    /\ phase = "verify"
    /\ phase' = IF writeRaw(tool) = signature.data THEN "control" ELSE "refused"
    /\ UNCHANGED <<keyVars, installs, written, route, hop, wire, tool, signature, called, order>>

(* Post looks for a control message, for the session of the node before,
   and then storeArticle writes the file. *)
Post ==
    /\ phase = "control"
    /\ called' = CheckControl(tool, signature.key, IF hop = 0 THEN Device ELSE Path[hop - 1])
    /\ wire' = writeRaw(tool) /\ phase' = "stored"
    /\ UNCHANGED <<keyVars, installs, written, route, hop, tool, signature, order>>

(* SendMessages: the file is parsed and written for the next node. *)
Relay ==
    /\ phase = "stored" /\ hop < LastHop
    /\ tool' = ParseBody(wire)
    /\ wire' = Sent(writeRaw(ParseBody(wire)))
    /\ hop' = hop + 1 /\ phase' = "arrives" /\ called' = <<>>
    /\ UNCHANGED <<keyVars, installs, written, route, signature, order>>
-----------------------------------------------------------------------------
Author ==
    \/ UseKey \/ GiveKey
    \/ \E m \in Messages : Own(m) \/ ReaderPosts(m)
    \/ \E o \in Orders : Create(o)

Next == Author \/ Sign \/ SignFails \/ Parse \/ Verify \/ Post \/ Relay

Spec == Init /\ [][Next]_vars
-----------------------------------------------------------------------------
(***************************************************************************)
(* Properties.                                                             *)
(***************************************************************************)

Multipart(m) == Len(m.parts) > 1
Has(text, piece) == \E i \in DOMAIN text : text[i] = piece
CutShort(m) == CutAt(m.type, m.text) # 0

(* What of the text is signed: all of it, or for a news reader what is
   left of it. *)
Signed(m) == ParseBody(FromReader(m)).pre.text

(* A message whose signature will not stand the way. *)
Fragile(m) ==
    IF route = "api"
    THEN \/ Has(m.text, "percent") \/ CutShort(m)
         \/ ~Multipart(m) /\ ~EndsLine(m.text)
         \/ Multipart(m) /\ \E i \in DOMAIN m.parts : m.parts[i].coding = "quoted"
    ELSE \/ Has(Signed(m), "percent")
         \/ ~Multipart(m) /\ ~EndsLine(Signed(m))

(* A message is refused only if it is fragile, and a fragile one is refused
   before a second node has stored it: whatever has been stored by one
   other node is verified by all that follow. *)
RefusedIffFragile ==
    /\ phase = "refused" => Fragile(written) /\ hop <= 1
    /\ phase = "stored" /\ hop > 0 => ~Fragile(written)

(* What another node stores is what the author wrote, and can be held
   against the key the author was given last; of a message with a single
   part, or that was cut short, the rest is lost without a word. *)
ArrivesAsWritten ==
    phase = "stored" /\ hop > 0 =>
        /\ signature.key = IF route = "reader" THEN Device ELSE installed.id
        /\ ~CutShort(written) =>
            wire.pre = Plain0(IF route = "reader" THEN Preamble(written) ELSE written.text)
        /\ Len(written.parts) # 1 => Len(wire.parts) = Len(written.parts)

(* What a node may do for an order: create the group that was asked for,
   under its author's id, with the card, and a description that perhaps lacks
   its first word; add the peer of a peers group where the message comes
   straight from its author; and for the other orders nothing but a sendme. *)
Understood(calls, o, owner, session) ==
    LET name == <<owner>> \o IF o.what = "peer" THEN <<"peers", o.words[1]>> ELSE <<"chat">>
        description == IF o.what = "peer" THEN <<"peer", "group">> ELSE o.words
    IN  IF o.what \in {"newgroup", "peer"}
        THEN /\ \E words \in {description, Tail(description)} :
                    calls[1] = Call("NewGroup", name, words, o.card)
             /\ IF o.what = "peer" /\ owner = session
                THEN /\ Len(calls) = 2
                     /\ calls[2] = Call("AddPeer", <<o.words[1]>>, <<>>, NoCard)
                ELSE Len(calls) = 1
        ELSE \A i \in DOMAIN calls :
                 o.what = "sendme" /\ calls[i].fn = "Sendme" /\ calls[i].about = <<owner>>

(* A control message made for a program is not taken for another at any node:
   the groups and peers it creates there are the ones that were asked for, in
   the name of its signer, and no flag or name of a group gets into their
   description.  It is not said that a sendme does what it asks. *)
ControlUnderstood ==
    phase = "stored" /\ order # NoOrder =>
        Understood(called, order, signature.key, Path[IF hop = 0 THEN 0 ELSE hop - 1])
=============================================================================
