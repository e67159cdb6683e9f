---------------------------- MODULE CodecProofs ----------------------------
(***************************************************************************)
(* What holds of a key tool for every set of identities and every sequence *)
(* of calls, and of a message for every text, part, order and path.        *)
(***************************************************************************)
EXTENDS Codec, SequenceTheorems, WellFoundedInduction, TLAPS

(* The key that counts is the last one given, unless an EC key has made it
   nil. *)
HeldIsLast ==
    keyType # "none" =>
        /\ installed.id \in Id
        /\ installed.secret = (keyType \in Secret)
        /\ field[keyType] = installed.id \/ (field[keyType] = Nil /\ spoiled)

KeyInv == KeyTypeOK /\ HeldIsLast /\ AnswersForLastKey

LEMMA NoAnswerType ==
  /\ NoAnswer \in [secret : BOOLEAN, id : Id \union {Nil, Error, Panic}]
  /\ NoAnswer.id = Nil
  BY DEF NoAnswer

LEMMA KeyInvInit == KeyInit => KeyInv
<1> SUFFICES ASSUME KeyInit PROVE KeyInv
  OBVIOUS
<1>1. keyType = "none" /\ spoiled = FALSE /\ answer = NoAnswer
  BY DEF KeyInit
<1>2. field \in [Form -> Id \union {Nil}]
  BY DEF KeyInit
<1>3. installed \in [id : Id \union {Nil}, secret : BOOLEAN]
  BY DEF KeyInit
<1>4. KeyTypeOK
  BY <1>1, <1>2, <1>3, NoAnswerType DEF KeyTypeOK
<1>5. HeldIsLast /\ AnswersForLastKey
  BY <1>1, NoAnswerType, KeyAssumption DEF HeldIsLast, AnswersForLastKey
<1> QED BY <1>4, <1>5 DEF KeyInv

(* A call that gives a key in some form. *)
LEMMA InstallKeeps ==
  ASSUME KeyInv, NEW t \in Form, NEW i \in Id, Install(t, i)
  PROVE  KeyInv'
<1>1. KeyTypeOK'
  <2>1. keyType' \in Form /\ spoiled' \in BOOLEAN
    BY DEF Install
  <2>2. field' \in [Form -> Id \union {Nil}]
    BY DEF Install, KeyInv, KeyTypeOK
  <2>3. installed' \in [id : Id \union {Nil}, secret : BOOLEAN]
    BY DEF Install
  <2>4. answer' = NoAnswer
    BY DEF Install
  <2> QED BY <2>1, <2>2, <2>3, <2>4, NoAnswerType DEF KeyTypeOK
<1>2. HeldIsLast'
  BY <1>1 DEF KeyInv, KeyTypeOK, HeldIsLast, Install, Form, Secret
<1>3. AnswersForLastKey'
  BY KeyAssumption DEF AnswersForLastKey, Install, NoAnswer
<1> QED BY <1>1, <1>2, <1>3 DEF KeyInv

LEMMA RefuseKeeps ==
  ASSUME KeyInv, Refuse
  PROVE  KeyInv'
<1>1. answer'.id = Error /\ Error \notin Id
  BY KeyAssumption DEF Refuse
<1>2. KeyTypeOK' /\ HeldIsLast'
  BY DEF KeyInv, KeyTypeOK, HeldIsLast, Refuse
<1>3. AnswersForLastKey'
  BY <1>1, KeyAssumption DEF AnswersForLastKey, Refuse
<1> QED BY <1>2, <1>3 DEF KeyInv

LEMMA ConvertKeeps ==
  ASSUME KeyInv, NEW t \in Form, NEW i \in Id \union {Nil}, Convert(t, i)
  PROVE  KeyInv'
<1>1. CASE i = Nil  BY <1>1, RefuseKeeps DEF Convert
<1>2. CASE i # Nil  BY <1>2, InstallKeeps DEF Convert
<1> QED BY <1>1, <1>2

LEMMA ParseKeyKeeps ==
  ASSUME KeyInv, NEW isEC \in BOOLEAN, ParseKey(isEC)
  PROVE  KeyInv'
<1>1. CASE ~isEC  BY <1>1, RefuseKeeps DEF ParseKey
<1>2. CASE isEC
  <2>1. answer'.id = Error /\ UNCHANGED <<keyType, installed>>
        /\ field' = [field EXCEPT !["private"] = Nil]
        /\ spoiled' = (spoiled \/ keyType = "private")
    BY <1>2 DEF ParseKey
  <2>2. KeyTypeOK'
    <3>1. field' \in [Form -> Id \union {Nil}]
      BY <2>1 DEF KeyInv, KeyTypeOK
    <3>2. answer' \in [secret : BOOLEAN, id : Id \union {Nil, Error, Panic}]
      <4>1. answer' = [secret |-> FALSE, id |-> Error]
        BY <1>2 DEF ParseKey
      <4> QED BY <4>1
    <3>3. spoiled' \in BOOLEAN
      BY <2>1 DEF KeyInv, KeyTypeOK
    <3> QED BY <2>1, <3>1, <3>2, <3>3 DEF KeyInv, KeyTypeOK
  <2>3. HeldIsLast'
    <3>1. CASE keyType = "private"
      BY <2>1, <3>1 DEF KeyInv, KeyTypeOK, HeldIsLast, Form
    <3>2. CASE keyType # "private"
      BY <2>1, <3>2 DEF KeyInv, KeyTypeOK, HeldIsLast, Form
    <3> QED BY <3>1, <3>2
  <2>4. AnswersForLastKey'
    BY <2>1, KeyAssumption DEF AnswersForLastKey
  <2> QED BY <2>2, <2>3, <2>4 DEF KeyInv
<1> QED BY <1>1, <1>2

(* A call that asks. *)
LEMMA AskKeeps ==
  ASSUME KeyInv, NEW forms \in SUBSET Form, Ask(forms)
  PROVE  KeyInv'
<1>1. UNCHANGED <<keyType, field, installed, spoiled>>
  BY DEF Ask
<1>2. answer'.secret = (forms \subseteq Secret) /\ answer'.id = Held(forms)
  BY DEF Ask
<1>3. Held(forms) \in Id \union {Error, Panic}
  BY DEF KeyInv, KeyTypeOK, Held, Form
<1>4. KeyTypeOK'
  BY <1>3 DEF KeyInv, KeyTypeOK, Ask
<1>5. HeldIsLast'
  BY <1>1 DEF KeyInv, HeldIsLast
<1>6. AnswersForLastKey'
  <2>1. ASSUME Held(forms) \in Id
        PROVE  /\ Held(forms) = installed.id
               /\ forms \subseteq Secret => installed.secret
    <3>1. keyType \in forms /\ field[keyType] # Nil /\ Held(forms) = field[keyType]
      BY <2>1, KeyAssumption DEF Held
    <3>2. keyType # "none"
      BY <3>1 DEF Form
    <3>3. installed.id = field[keyType] /\ installed.secret = (keyType \in Secret)
      BY <3>1, <3>2 DEF KeyInv, HeldIsLast
    <3> QED BY <3>1, <3>3
  <2>2. ASSUME Held(forms) = Panic PROVE spoiled
    <3>1. keyType \in forms /\ field[keyType] \in Id \union {Nil}
      BY <2>2, KeyAssumption DEF KeyInv, KeyTypeOK, Held
    <3>2. field[keyType] = Nil
      BY <2>2, <3>1, KeyAssumption DEF Held
    <3>3. keyType # "none"
      BY <3>1 DEF Form
    <3> QED BY <3>2, <3>3, KeyAssumption DEF KeyInv, HeldIsLast
  <2> QED BY <1>1, <1>2, <2>1, <2>2 DEF AnswersForLastKey
<1> QED BY <1>4, <1>5, <1>6 DEF KeyInv

LEMMA KeyInvNext == KeyInv /\ [KeyNext]_keyVars => KeyInv'
<1> SUFFICES ASSUME KeyInv, [KeyNext]_keyVars PROVE KeyInv'
  OBVIOUS
<1> Form = {"private", "public", "torPrivate", "torPublic"}
  BY DEF Form
<1>1. CASE Give
  <2>1. ASSUME NEW i \in Id,
               \/ SetPublicKey(i) \/ SetPrivateKey(i)
               \/ SetTorPublicKey(i) \/ SetTorPrivateKey(i) \/ GenerateKey(i)
        PROVE  KeyInv'
    BY <2>1, InstallKeeps
    DEF SetPublicKey, SetPrivateKey, SetTorPublicKey, SetTorPrivateKey, GenerateKey
  <2>2. ASSUME NEW i \in Id \union {Nil},
               \/ SetTorId(i) \/ SetSshPublicKey(i) \/ SetSshAuthorizedKey(i)
               \/ ParseCertificate(i) \/ ParsePublicKey(i)
        PROVE  KeyInv'
    BY <2>2, ConvertKeeps
    DEF SetTorId, SetSshPublicKey, SetSshAuthorizedKey, ParseCertificate, ParsePublicKey
  <2>3. ASSUME NEW isEC \in BOOLEAN, ParseKey(isEC) PROVE KeyInv'
    BY <2>3, ParseKeyKeeps
  <2> QED BY <1>1, <2>1, <2>2, <2>3 DEF Give
<1>2. CASE Use
  <2>1. Plain \subseteq Form /\ Secret \subseteq Form /\ {"private"} \subseteq Form
    BY DEF Plain, Secret
  <2>2. Ask(Form) \/ Ask(Plain) \/ Ask(Secret) \/ Ask({"private"})
    BY <1>2 DEF Use, TorId, TorPubKey, TorVerify, PubKey, SshPubKey, SshAuthorizedKey,
                MarshalPublicKey, TorPrivKey, TorSign, SshPrivateKey, MarshalPrivateKey, CreateCert
  <2> QED BY <2>1, <2>2, AskKeeps
<1>3. CASE UNCHANGED keyVars
  BY <1>3 DEF keyVars, KeyInv, KeyTypeOK, HeldIsLast, AnswersForLastKey
<1> QED BY <1>1, <1>2, <1>3 DEF KeyNext

(* A tool always holds keys of the forms its fields are for. *)
THEOREM KeyTypeCorrect == KeySpec => []KeyTypeOK
<1>1. KeyInv => KeyTypeOK  BY DEF KeyInv
<1> QED BY KeyInvInit, KeyInvNext, <1>1, PTL DEF KeySpec

(* Whatever calls a tool has seen, it answers for the key it was given last,
   with what needs a private key only if that was one, and it panics only
   after an EC key was parsed over a private key. *)
THEOREM AnswersAreForLastKey == KeySpec => []AnswersForLastKey
<1>1. KeyInv => AnswersForLastKey  BY DEF KeyInv
<1> QED BY KeyInvInit, KeyInvNext, <1>1, PTL DEF KeySpec
-----------------------------------------------------------------------------
(* What the author signs. *)

ProgramTool(m) ==
    [type |-> m.type, control |-> m.control, pre |-> Plain0(m.text), parts |-> m.parts]
FirstTool(m) == IF route = "api" THEN ProgramTool(m) ELSE ParseBody(FromReader(m))
Data == writeRaw(FirstTool(written))

Underway == phase \in {"arrives", "verify", "control", "stored"}

(* Some node has compared the signature with what it has parsed itself. *)
Settled ==
    \/ hop > 1 \/ (hop = 1 /\ phase \in {"control", "stored"})
    \/ route = "api" /\ (hop > 0 \/ phase \in {"control", "stored"})

WrittenOK ==
    /\ IsMessage(written) /\ route \in {"api", "reader"}
    /\ route = "reader" => EndsLine(written.text) /\ ~ReaderPanics(written)

WrittenInv ==
    /\ hop \in Nat
    /\ phase \in {"write", "sign"} => hop = 0
    /\ phase = "write" => order = NoOrder
    /\ phase = "sign" => tool = FirstTool(written)
    /\ phase \in {"sign", "refused"} \/ Underway => WrittenOK

SignedInv ==
    /\ Underway \/ phase = "refused" =>
          /\ signature.data = Data
          /\ signature.key = IF route = "reader" THEN Device ELSE installed.id
    /\ phase = "refused" => Fragile(written) /\ hop <= 1

(* What a node has received, and has parsed, once the message is known to
   stand the way, and before. *)
TransitInv ==
    /\ Underway /\ Settled => ~Fragile(written) /\ wire = Data /\ tool = Data
    /\ Underway /\ ~Settled =>
          /\ phase \in {"arrives", "verify"} /\ (route = "api" \/ hop = 1) =>
                wire = Sent(IF route = "api" THEN Data ELSE writeRaw(ParseBody(Data)))
          /\ phase = "verify" =>
                tool = IF route = "api" \/ hop = 1 THEN ParseBody(wire) ELSE FirstTool(written)
          /\ phase = "control" => tool = FirstTool(written)
          /\ phase = "arrives" => route = "api" \/ hop = 1
          /\ phase = "stored" => wire = Data

(* What was asked for, under the name of that key, is what was written. *)
MadeAs(m, o, owner) ==
    CASE o.what = "newgroup" ->
            \E p \in {"permitted", "not permitted"} :
                m = CreateNewsGroupMail(owner, <<"chat">>, o.words, p, o.card)
      [] o.what = "peer" -> m = CreatePeerGroup(owner, o.words[1], o.card)
      [] o.what = "checkgroups" -> m = CreateCheckgroups(Device, o.words)
      [] o.what = "sendme" -> m = CreateSendme(Device, o.words, <<>>)

MadeFor(owner) == MadeAs(written, order, owner)

OrderInv ==
    order # NoOrder /\ phase # "panic" =>
        /\ order \in Orders /\ route = "api"
        /\ phase = "sign" => MadeFor(Held(Form))
        /\ Underway => MadeFor(signature.key)

CodecInv ==
    KeyInv /\ WrittenInv /\ SignedInv /\ TransitInv /\ OrderInv /\ ControlUnderstood
-----------------------------------------------------------------------------
(* The operators on texts, parts and bodies. *)

LEMMA LeastNumber ==
  ASSUME NEW T \in SUBSET Nat, T # {}
  PROVE  \E x \in T : \A y \in T : x <= y
<1> DEFINE R == {ss \in Nat \X Nat : ss[1] < ss[2]}
<1>1. IsWellFoundedOn(R, Nat)
  BY NatLessThanWellFounded DEF OpToRel
<1>2. PICK x \in T : \A y \in T : ~(<<y, x>> \in R)
  <2> HIDE DEF R
  <2> QED BY <1>1, WFMin
<1>3. ASSUME NEW y \in T PROVE ~(y < x)
  <2>1. <<y, x>> \notin R /\ x \in Nat /\ y \in Nat
    BY <1>2
  <2> QED BY <2>1
<1> QED BY <1>3

Starts(type, text) ==
    {i \in DOMAIN text : /\ type = "plain" /\ text[i] = "dashes"
                         /\ i = 1 \/ text[i - 1] = "nl"}

LEMMA CutByStarts ==
  ASSUME NEW type, NEW text
  PROVE  CutAt(type, text) =
            IF Starts(type, text) = {} THEN 0
            ELSE CHOOSE i \in Starts(type, text) : \A j \in Starts(type, text) : i <= j
BY DEF CutAt, Starts

(* The cut is at the first start. *)
LEMMA CutIsFirst ==
  ASSUME NEW type, NEW text \in Seq(Pieces)
  PROVE  /\ Starts(type, text) \subseteq 1 .. Len(text) /\ Len(text) \in Nat
         /\ CutAt(type, text) = 0 <=> Starts(type, text) = {}
         /\ CutAt(type, text) # 0 =>
               /\ CutAt(type, text) \in Starts(type, text)
               /\ \A j \in Starts(type, text) : CutAt(type, text) <= j
<1>1. Starts(type, text) \subseteq 1 .. Len(text) /\ Len(text) \in Nat
  BY DEF Starts
<1>3. CASE Starts(type, text) = {}
  BY <1>1, <1>3, CutByStarts
<1>4. CASE Starts(type, text) # {}
  <2>1. \E i \in Starts(type, text) : \A j \in Starts(type, text) : i <= j
    BY <1>1, <1>4, LeastNumber
  <2> QED BY <1>1, <1>4, <2>1, CutByStarts
<1> QED BY <1>1, <1>3, <1>4

(* Nothing but "plain" is cut, and nothing is cut twice. *)
LEMMA CutOnce ==
  ASSUME NEW type, NEW text \in Seq(Pieces)
  PROVE  /\ type # "plain" => CutAt(type, text) = 0
         /\ LET kept == SubSeq(text, 1, CutAt(type, text) - 2)
            IN  CutAt(type, text) # 0 =>
                  /\ kept \in Seq(Pieces) /\ CutAt(type, kept) = 0 /\ Len(kept) < CutAt(type, text)
<1>1. type # "plain" => Starts(type, text) = {}
  BY DEF Starts
<1>2. ASSUME CutAt(type, text) # 0
      PROVE  LET kept == SubSeq(text, 1, CutAt(type, text) - 2)
             IN  kept \in Seq(Pieces) /\ CutAt(type, kept) = 0 /\ Len(kept) < CutAt(type, text)
  <2> DEFINE i == CutAt(type, text)
             kept == SubSeq(text, 1, i - 2)
  <2>1. i \in 1 .. Len(text) /\ Len(text) \in Nat /\ \A j \in Starts(type, text) : i <= j
    BY <1>2, CutIsFirst
  <2> HIDE DEF i
  <2>2. /\ kept \in Seq(Pieces)
        /\ Len(kept) = IF 1 <= i - 2 THEN i - 2 ELSE 0
        /\ \A j \in 1 .. i - 2 : kept[j] = text[j]
    <3>1. \A j \in 1 .. i - 2 : text[j] \in Pieces
      BY <2>1, ElementOfSeq
    <3>2. /\ kept \in Seq(Pieces)
          /\ Len(kept) = IF 1 <= i - 2 THEN (i - 2) - 1 + 1 ELSE 0
          /\ \A j \in 1 .. (i - 2) - 1 + 1 : kept[j] = text[1 + j - 1]
      <4> HIDE DEF kept
      <4> QED BY <2>1, <3>1, SubSeqProperties, 1 \in Int, i - 2 \in Int DEF kept
    <3> QED BY <2>1, <3>2
  <2> HIDE DEF kept
  <2>3. Len(kept) < i
    BY <2>1, <2>2
  <2>4. Starts(type, kept) = {}
    <3> SUFFICES ASSUME NEW j \in Starts(type, kept) PROVE FALSE
      OBVIOUS
    <3>1. j \in 1 .. i - 2 /\ kept[j] = text[j] /\ (j # 1 => kept[j - 1] = text[j - 1])
      BY <2>1, <2>2 DEF Starts
    <3>2. j \in Starts(type, text)
      BY <2>1, <3>1 DEF Starts
    <3> QED BY <2>1, <3>1, <3>2
  <2>5. CutAt(type, kept) = 0
    BY <2>2, <2>4, CutIsFirst
  <2> QED BY <2>2, <2>3, <2>5 DEF kept, i
<1> QED BY <1>1, <1>2, CutIsFirst

(* The end of line that Sent adds moves no cut. *)
LEMMA CutAppend ==
  ASSUME NEW type, NEW text \in Seq(Pieces)
  PROVE  /\ Append(text, "nl") \in Seq(Pieces) /\ Len(Append(text, "nl")) = Len(text) + 1
         /\ CutAt(type, Append(text, "nl")) = CutAt(type, text)
         /\ Contains(text, "percent") => Contains(Append(text, "nl"), "percent")
<1> DEFINE longer == Append(text, "nl")
<1>1. /\ longer \in Seq(Pieces) /\ Len(longer) = Len(text) + 1 /\ Len(text) \in Nat
      /\ \A i \in 1 .. Len(text) : longer[i] = text[i]
      /\ longer[Len(text) + 1] = "nl"
  BY DEF Pieces
<1> HIDE DEF longer
<1>2. Starts(type, longer) = Starts(type, text)
  <2>1. DOMAIN longer = 1 .. Len(text) + 1 /\ DOMAIN text = 1 .. Len(text)
    BY <1>1
  <2>2. ASSUME NEW i \in 1 .. Len(text) + 1
        PROVE  i \in Starts(type, longer) <=> i \in Starts(type, text)
    <3>1. CASE i = Len(text) + 1
      BY <1>1, <2>1, <3>1 DEF Starts
    <3>2. CASE i \in 1 .. Len(text)
      <4>1. longer[i] = text[i] /\ (i # 1 => longer[i - 1] = text[i - 1])
        BY <1>1, <3>2
      <4> QED BY <2>1, <3>2, <4>1 DEF Starts
    <3> QED BY <1>1, <3>1, <3>2
  <2>3. Starts(type, longer) \subseteq 1 .. Len(text) + 1 /\ Starts(type, text) \subseteq 1 .. Len(text) + 1
    BY <1>1, <2>1 DEF Starts
  <2> QED BY <2>2, <2>3
<1>3. CutAt(type, longer) = CutAt(type, text)
  <2>1. CutAt(type, longer) =
          IF Starts(type, longer) = {} THEN 0
          ELSE CHOOSE i \in Starts(type, longer) : \A j \in Starts(type, longer) : i <= j
    BY CutByStarts
  <2> QED BY <1>2, <2>1, CutByStarts
<1>4. Contains(text, "percent") => Contains(longer, "percent")
  BY <1>1 DEF Contains
<1> QED BY <1>1, <1>3, <1>4 DEF longer

(* What the multipart reader makes of parts. *)
LEMMA DecodedParts ==
  ASSUME NEW parts, IsParts(parts)
  PROVE  /\ Decoded(parts) \in Seq(Range(Decoded(parts)))
         /\ Len(Decoded(parts)) = Len(parts) /\ Len(parts) \in Nat
         /\ Decoded(parts) = <<>> <=> parts = <<>>
         /\ Decoded(parts) = parts <=> ~\E i \in DOMAIN parts : parts[i].coding = "quoted"
         /\ Decoded(Decoded(parts)) = Decoded(parts)
<1> DEFINE n == Len(parts)
           done == Decoded(parts)
<1>1. n \in Nat /\ DOMAIN parts = 1 .. n /\ parts = [i \in 1 .. n |-> parts[i]]
  BY DEF IsParts
<1>2. done = [i \in 1 .. n |-> [parts[i] EXCEPT !.coding = "8bit"]]
  BY <1>1 DEF Decoded
<1>3. \A i \in 1 .. n :
        /\ done[i] = [parts[i] EXCEPT !.coding = "8bit"]
        /\ done[i].coding = "8bit"
        /\ [done[i] EXCEPT !.coding = "8bit"] = done[i]
        /\ parts[i].coding = "8bit" => done[i] = parts[i]
        /\ parts[i].coding # "quoted" => parts[i].coding = "8bit"
  <2> SUFFICES ASSUME NEW i \in 1 .. n
               PROVE  /\ done[i] = [parts[i] EXCEPT !.coding = "8bit"]
                      /\ done[i].coding = "8bit"
                      /\ [done[i] EXCEPT !.coding = "8bit"] = done[i]
                      /\ parts[i].coding = "8bit" => done[i] = parts[i]
                      /\ parts[i].coding # "quoted" => parts[i].coding = "8bit"
    OBVIOUS
  <2> DEFINE p == parts[i]
  <2>1. /\ p = [type |-> p.type, coding |-> p.coding, words |-> p.words]
        /\ p.coding \in {"8bit", "quoted"}
    BY <1>1 DEF IsParts
  <2>2. done[i] = [p EXCEPT !.coding = "8bit"]
    BY <1>2
  <2> HIDE DEF done, p
  <2>3. done[i] = [type |-> p.type, coding |-> "8bit", words |-> p.words]
    BY <2>1, <2>2
  <2> QED BY <2>1, <2>2, <2>3 DEF p
<1> HIDE DEF done
<1>4. done \in Seq(Range(done)) /\ Len(done) = n /\ DOMAIN done = 1 .. n
  <2>1. DOMAIN done = 1 .. n
    BY <1>2
  <2>2. done \in [1 .. n -> Range(done)]
    BY <1>2, <2>1 DEF Range
  <2> QED BY <1>1, <2>1, <2>2, SeqDef, LenProperties
<1>5. done = <<>> <=> parts = <<>>
  BY <1>1, <1>4, EmptySeq DEF IsParts
<1>6. done = parts <=> ~\E i \in DOMAIN parts : parts[i].coding = "quoted"
  <2>1. ASSUME NEW i \in DOMAIN parts, parts[i].coding = "quoted" PROVE done # parts
    BY <1>1, <1>3, <2>1
  <2>2. ASSUME \A i \in DOMAIN parts : parts[i].coding # "quoted" PROVE done = parts
    <3>1. \A i \in 1 .. n : done[i] = parts[i]
      BY <1>1, <1>3, <2>2
    <3>2. done = [i \in 1 .. n |-> done[i]]
      BY <1>2
    <3> QED BY <1>1, <3>1, <3>2
  <2> QED BY <2>1, <2>2
<1>7. Decoded(done) = done
  <2>1. Decoded(done) = [i \in 1 .. n |-> [done[i] EXCEPT !.coding = "8bit"]]
    BY <1>4 DEF Decoded
  <2>2. done = [i \in 1 .. n |-> done[i]]
    BY <1>2
  <2> QED BY <1>3, <2>1, <2>2
<1> QED BY <1>1, <1>4, <1>5, <1>6, <1>7 DEF done

(* The text with the end of its last line. *)
Ended(text, parts) == IF parts # <<>> \/ EndsLine(text) THEN text ELSE Append(text, "nl")

(* A body by its fields, and the three operators on one. *)
Body(type, control, text, times, parts) ==
    [type |-> type, control |-> control, pre |-> [text |-> text, times |-> times], parts |-> parts]

LEMMA BodyEqual ==
  ASSUME NEW type, NEW control, NEW text, NEW times, NEW parts,
         NEW text2, NEW times2, NEW parts2
  PROVE  Body(type, control, text, times, parts) = Body(type, control, text2, times2, parts2)
            <=> text = text2 /\ times = times2 /\ parts = parts2
<1>1. /\ Body(type, control, text, times, parts).pre.text = text
      /\ Body(type, control, text, times, parts).pre.times = times
      /\ Body(type, control, text, times, parts).parts = parts
      /\ Body(type, control, text2, times2, parts2).pre.text = text2
      /\ Body(type, control, text2, times2, parts2).pre.times = times2
      /\ Body(type, control, text2, times2, parts2).parts = parts2
  BY DEF Body
<1> QED BY <1>1

LEMMA TwoFields ==
  ASSUME NEW b, NEW type, NEW control, NEW pre, NEW parts, NEW pre2, NEW parts2,
         b = [type |-> type, control |-> control, pre |-> pre, parts |-> parts]
  PROVE  [b EXCEPT !.pre = pre2, !.parts = parts2] =
              [type |-> type, control |-> control, pre |-> pre2, parts |-> parts2]
<1> DEFINE once == [b EXCEPT !.pre = pre2]
<1>1. [b EXCEPT !.pre = pre2, !.parts = parts2] = [once EXCEPT !.parts = parts2]
  OBVIOUS
<1>2. once = [type |-> type, control |-> control, pre |-> pre2, parts |-> parts]
  OBVIOUS
<1> HIDE DEF once
<1>3. [once EXCEPT !.parts = parts2] =
        [type |-> type, control |-> control, pre |-> pre2, parts |-> parts2]
  BY <1>2
<1> QED BY <1>1, <1>3

LEMMA Operators ==
  ASSUME NEW type, NEW control, NEW text, NEW times, NEW parts
  PROVE  /\ writeRaw(Body(type, control, text, times, parts)) =
               Body(type, control, text,
                    IF Contains(text, "percent") THEN times + 1 ELSE times,
                    IF Len(parts) > 1 THEN parts ELSE <<>>)
         /\ Sent(Body(type, control, text, times, parts)) =
               Body(type, control, Ended(text, parts), times, parts)
         /\ CutAt(type, text) = 0 =>
               ParseBody(Body(type, control, text, times, parts)) =
               Body(type, control, text, times, Decoded(parts))
         /\ CutAt(type, text) # 0 =>
               LET kept == SubSeq(text, 1, CutAt(type, text) - 2)
               IN  ParseBody(Body(type, control, text, times, parts)) =
                   Body(type, control, kept, IF Contains(kept, "percent") THEN times ELSE 0, <<>>)
<1> DEFINE pre == [text |-> text, times |-> times]
           b == Body(type, control, text, times, parts)
<1>1. /\ b = [type |-> type, control |-> control, pre |-> pre, parts |-> parts]
      /\ b.type = type /\ b.pre = pre /\ b.parts = parts /\ pre.text = text /\ pre.times = times
  BY DEF Body
<1> HIDE DEF b, pre
<1>2. writeRaw(b) = Body(type, control, text,
                         IF Contains(text, "percent") THEN times + 1 ELSE times,
                         IF Len(parts) > 1 THEN parts ELSE <<>>)
  <2>1. Expanded(pre) = [text |-> text, times |-> IF Contains(text, "percent") THEN times + 1 ELSE times]
    BY <1>1 DEF Expanded, pre
  <2>2. writeRaw(b) = [type |-> type, control |-> control, pre |-> Expanded(pre),
                       parts |-> IF Len(parts) > 1 THEN parts ELSE <<>>]
    <3>1. writeRaw(b) = [b EXCEPT !.pre = Expanded(pre),
                                  !.parts = IF Len(parts) > 1 THEN parts ELSE <<>>]
      BY <1>1 DEF writeRaw
    <3> QED BY <1>1, <3>1, TwoFields
  <2> QED BY <2>1, <2>2 DEF Body
<1>3. Sent(b) = Body(type, control, Ended(text, parts), times, parts)
  <2>1. CASE parts # <<>> \/ EndsLine(text)
    BY <1>1, <2>1 DEF Sent, Body, b, pre, Ended
  <2>2. CASE ~(parts # <<>> \/ EndsLine(text))
    <3>1. Sent(b) = [b EXCEPT !.pre.text = Append(text, "nl")]
      BY <1>1, <2>2 DEF Sent
    <3>2. [b EXCEPT !.pre.text = Append(text, "nl")] =
              [type |-> type, control |-> control,
               pre |-> [pre EXCEPT !.text = Append(text, "nl")], parts |-> parts]
      BY <1>1
    <3>3. [pre EXCEPT !.text = Append(text, "nl")] = [text |-> Append(text, "nl"), times |-> times]
      BY <1>1 DEF pre
    <3> QED BY <2>2, <3>1, <3>2, <3>3 DEF Body, Ended
  <2> QED BY <2>1, <2>2
<1>4. CutAt(type, text) = 0 => ParseBody(b) = Body(type, control, text, times, Decoded(parts))
  <2>1. ASSUME CutAt(type, text) = 0 PROVE ParseBody(b) = [b EXCEPT !.parts = Decoded(parts)]
    BY <1>1, <2>1 DEF ParseBody
  <2>2. [b EXCEPT !.parts = Decoded(parts)] =
            [type |-> type, control |-> control, pre |-> pre, parts |-> Decoded(parts)]
    BY <1>1
  <2> QED BY <1>1, <2>1, <2>2 DEF Body, pre
<1>5. ASSUME CutAt(type, text) # 0
      PROVE  LET kept == SubSeq(text, 1, CutAt(type, text) - 2)
             IN  ParseBody(b) =
                 Body(type, control, kept, IF Contains(kept, "percent") THEN times ELSE 0, <<>>)
  <2> DEFINE kept == SubSeq(text, 1, CutAt(type, text) - 2)
             front == Before(pre, CutAt(type, text))
             none == <<>>
  <2>1. ParseBody(b) = [b EXCEPT !.pre = front, !.parts = none]
    BY <1>1, <1>5 DEF ParseBody
  <2>2. front = [text |-> kept, times |-> IF Contains(kept, "percent") THEN times ELSE 0]
    BY <1>1 DEF Before
  <2> HIDE DEF front, none
  <2>3. [b EXCEPT !.pre = front, !.parts = none] =
            [type |-> type, control |-> control, pre |-> front, parts |-> none]
    <3> DEFINE once == [b EXCEPT !.pre = front]
    <3>1. [b EXCEPT !.pre = front, !.parts = none] = [once EXCEPT !.parts = none]
      OBVIOUS
    <3>2. once = [type |-> type, control |-> control, pre |-> front, parts |-> parts]
      BY <1>1
    <3> HIDE DEF once
    <3>3. [once EXCEPT !.parts = none] =
            [type |-> type, control |-> control, pre |-> front, parts |-> none]
      BY <3>2
    <3> QED BY <3>1, <3>3
  <2> QED BY <2>1, <2>2, <2>3 DEF Body, none
<1> QED BY <1>2, <1>3, <1>4, <1>5 DEF b

(* Written by one node, sent, parsed and written again by the next. *)
Again(b) == writeRaw(ParseBody(Sent(b)))

LEMMA AgainUncut ==
  ASSUME NEW type, NEW control, NEW text \in Seq(Pieces), NEW times, NEW parts,
         CutAt(type, text) = 0
  PROVE  Again(Body(type, control, text, times, parts)) =
            Body(type, control, Ended(text, parts),
                 IF Contains(Ended(text, parts), "percent") THEN times + 1 ELSE times,
                 IF Len(Decoded(parts)) > 1 THEN Decoded(parts) ELSE <<>>)
<1> DEFINE ended == Ended(text, parts)
<1>1. CutAt(type, ended) = 0
  BY CutAppend DEF Ended
<1>2. Sent(Body(type, control, text, times, parts)) = Body(type, control, ended, times, parts)
  BY Operators
<1> HIDE DEF ended
<1>3. ParseBody(Body(type, control, ended, times, parts)) =
        Body(type, control, ended, times, Decoded(parts))
  BY <1>1, Operators
<1>4. writeRaw(Body(type, control, ended, times, Decoded(parts))) =
        Body(type, control, ended, IF Contains(ended, "percent") THEN times + 1 ELSE times,
             IF Len(Decoded(parts)) > 1 THEN Decoded(parts) ELSE <<>>)
  BY Operators
<1> QED BY <1>2, <1>3, <1>4 DEF Again, ended

LEMMA AgainCut ==
  ASSUME NEW type, NEW control, NEW text \in Seq(Pieces), NEW times, NEW parts,
         CutAt(type, text) # 0
  PROVE  Again(Body(type, control, text, times, parts)) # Body(type, control, text, times, parts)
<1> DEFINE ended == Ended(text, parts)
           kept == SubSeq(ended, 1, CutAt(type, ended) - 2)
           count == IF Contains(kept, "percent") THEN times ELSE 0
           count2 == IF Contains(kept, "percent") THEN count + 1 ELSE count
           none == IF Len(<<>>) > 1 THEN <<>> ELSE <<>>
<1>1. ended \in Seq(Pieces) /\ CutAt(type, ended) = CutAt(type, text)
  BY CutAppend DEF Ended
<1>2. Sent(Body(type, control, text, times, parts)) = Body(type, control, ended, times, parts)
  BY Operators
<1> HIDE DEF ended
<1>3. Len(kept) < Len(text)
  <2>1. Len(kept) < CutAt(type, ended) /\ kept \in Seq(Pieces)
    BY <1>1, CutOnce
  <2>2. CutAt(type, text) \in 1 .. Len(text)
    BY CutIsFirst
  <2> HIDE DEF kept
  <2> QED BY <1>1, <2>1, <2>2
<1>4. ParseBody(Body(type, control, ended, times, parts)) = Body(type, control, kept, count, <<>>)
  BY <1>1, Operators
<1> HIDE DEF kept, count
<1>5. writeRaw(Body(type, control, kept, count, <<>>)) = Body(type, control, kept, count2, none)
  BY Operators
<1>6. Again(Body(type, control, text, times, parts)) = Body(type, control, kept, count2, none)
  BY <1>2, <1>4, <1>5 DEF Again
<1> HIDE DEF count2, none
<1>7. kept # text
  BY <1>3
<1> QED BY <1>6, <1>7, BodyEqual

(* A body that passes through all three operators as it is. *)
LEMMA Fixed ==
  ASSUME NEW type, NEW control, NEW text \in Seq(Pieces), NEW parts,
         CutAt(type, text) = 0, ~Contains(text, "percent"),
         parts # <<>> \/ EndsLine(text), parts = <<>> \/ Len(parts) > 1, Decoded(parts) = parts
  PROVE  LET b == Body(type, control, text, 0, parts)
         IN  Sent(b) = b /\ ParseBody(b) = b /\ writeRaw(b) = b
<1>1. Sent(Body(type, control, text, 0, parts)) = Body(type, control, text, 0, parts)
  <2>1. Sent(Body(type, control, text, 0, parts)) =
          Body(type, control, Ended(text, parts), 0, parts)
    BY Operators
  <2>2. Ended(text, parts) = text
    BY DEF Ended
  <2> QED BY <2>1, <2>2
<1>2. ParseBody(Body(type, control, text, 0, parts)) = Body(type, control, text, 0, parts)
  BY Operators
<1>3. writeRaw(Body(type, control, text, 0, parts)) = Body(type, control, text, 0, parts)
  <2>1. writeRaw(Body(type, control, text, 0, parts)) =
          Body(type, control, text, 0, IF Len(parts) > 1 THEN parts ELSE <<>>)
    BY Operators
  <2> QED BY <2>1
<1> QED BY <1>1, <1>2, <1>3
-----------------------------------------------------------------------------
(* What the author signs, by its fields. *)

FirstText == IF route = "api" THEN written.text ELSE Signed(written)
FirstParts == IF route = "api" THEN written.parts ELSE Decoded(written.parts)
SignedParts == IF Len(FirstParts) > 1 THEN FirstParts ELSE <<>>

LEMMA MessageFields ==
  ASSUME NEW m, IsMessage(m)
  PROVE  /\ m.type \in {"none", "plain", "mixed"} /\ m.text \in Seq(Pieces)
         /\ IsParts(m.parts)
         /\ m.parts # <<>> => m.type = "mixed"
         /\ ProgramTool(m) = Body(m.type, m.control, m.text, 0, m.parts)
         /\ FromReader(m) = Body(m.type, m.control, Preamble(m), 0, m.parts)
<1>1. IsParts(m.parts)
  BY DEF IsMessage, IsParts
<1>2. ProgramTool(m) = Body(m.type, m.control, m.text, 0, m.parts)
  BY DEF ProgramTool, Plain0, Body
<1>3. FromReader(m) = Body(m.type, m.control, Preamble(m), 0, m.parts)
  BY DEF FromReader, Plain0, Body
<1> QED BY <1>1, <1>2, <1>3 DEF IsMessage

LEMMA EmptyDecoded == Decoded(<<>>) = <<>>
<1>1. IsParts(<<>>)
  BY EmptySeq DEF IsParts
<1> QED BY <1>1, DecodedParts

(* What a reader sends is parsed before it is signed. *)
LEMMA ReaderTool ==
  ASSUME NEW m, IsMessage(m)
  PROVE  /\ ParseBody(FromReader(m)) = Body(m.type, m.control, Signed(m), 0, Decoded(m.parts))
         /\ Signed(m) \in Seq(Pieces) /\ CutAt(m.type, Signed(m)) = 0
         /\ ~CutShort(m) => Signed(m) = Preamble(m)
<1> DEFINE t == m.type
           c == m.control
           x == Preamble(m)
           ps == m.parts
<1>1. x \in Seq(Pieces) /\ (ps # <<>> => t = "mixed") /\ (ps = <<>> => x = m.text)
  <2>1. m.text \in Seq(Pieces) /\ (ps # <<>> => t = "mixed")
    BY MessageFields
  <2>2. Front(m.text) \in Seq(Pieces)
    <3>1. Len(m.text) \in Nat /\ \A i \in 1 .. Len(m.text) - 1 : m.text[i] \in Pieces
      BY <2>1, ElementOfSeq
    <3> QED BY <3>1, SubSeqProperties, 1 \in Int, Len(m.text) - 1 \in Int DEF Front
  <2> QED BY <2>1, <2>2 DEF Preamble
<1>2. FromReader(m) = Body(t, c, x, 0, ps)
  BY MessageFields
<1> HIDE DEF x
<1>3. CASE CutAt(t, x) = 0
  <2>1. ParseBody(FromReader(m)) = Body(t, c, x, 0, Decoded(ps))
    BY <1>2, <1>3, Operators
  <2>2. Signed(m) = x
    BY <2>1 DEF Signed, Body
  <2> QED BY <1>1, <1>3, <2>1, <2>2 DEF x
<1>4. CASE CutAt(t, x) # 0
  <2> DEFINE kept == SubSeq(x, 1, CutAt(t, x) - 2)
  <2>1. ps = <<>>
    BY <1>1, <1>4, CutOnce
  <2>2. kept \in Seq(Pieces) /\ CutAt(t, kept) = 0
    BY <1>1, <1>4, CutOnce
  <2>3. ParseBody(FromReader(m)) = Body(t, c, kept, IF Contains(kept, "percent") THEN 0 ELSE 0, <<>>)
    BY <1>2, <1>4, Operators
  <2> HIDE DEF kept
  <2>4. Signed(m) = kept
    BY <2>3 DEF Signed, Body
  <2>5. CutShort(m)
    BY <1>1, <1>4, <2>1 DEF CutShort
  <2> QED BY <2>1, <2>2, <2>3, <2>4, <2>5, EmptyDecoded
<1> QED BY <1>3, <1>4

LEMMA FirstFields ==
  ASSUME WrittenOK
  PROVE  /\ FirstTool(written) = Body(written.type, written.control, FirstText, 0, FirstParts)
         /\ FirstText \in Seq(Pieces)
         /\ IsParts(written.parts) /\ Len(FirstParts) = Len(written.parts)
         /\ Len(written.parts) \in Nat
         /\ Data = Body(written.type, written.control, FirstText,
                        IF Contains(FirstText, "percent") THEN 0 + 1 ELSE 0, SignedParts)
         /\ SignedParts = <<>> \/ Len(SignedParts) > 1
         /\ SignedParts # <<>> <=> Multipart(written)
         /\ route = "reader" => CutAt(written.type, FirstText) = 0
         /\ Decoded(SignedParts) # SignedParts <=>
              /\ route = "api" /\ Multipart(written)
              /\ \E i \in DOMAIN written.parts : written.parts[i].coding = "quoted"
<1>1. IsMessage(written) /\ (route = "api" \/ route = "reader")
  BY DEF WrittenOK
<1>2. IsParts(written.parts) /\ Len(written.parts) \in Nat
  BY <1>1, MessageFields, DecodedParts
<1>3. /\ FirstTool(written) = Body(written.type, written.control, FirstText, 0, FirstParts)
      /\ FirstText \in Seq(Pieces)
      /\ route = "reader" => CutAt(written.type, FirstText) = 0
  <2>1. CASE route = "api"
    BY <1>1, <2>1, MessageFields DEF FirstTool, FirstText, FirstParts
  <2>2. CASE route = "reader"
    BY <1>1, <2>2, ReaderTool DEF FirstTool, FirstText, FirstParts
  <2> QED BY <1>1, <2>1, <2>2
<1>4. Len(FirstParts) = Len(written.parts)
  BY <1>2, DecodedParts DEF FirstParts
<1>5. Data = Body(written.type, written.control, FirstText,
                  IF Contains(FirstText, "percent") THEN 0 + 1 ELSE 0, SignedParts)
  <2>1. writeRaw(Body(written.type, written.control, FirstText, 0, FirstParts)) =
          Body(written.type, written.control, FirstText,
               IF Contains(FirstText, "percent") THEN 0 + 1 ELSE 0,
               IF Len(FirstParts) > 1 THEN FirstParts ELSE <<>>)
    BY Operators
  <2> QED BY <1>3, <2>1 DEF Data, SignedParts
<1>6. /\ SignedParts = <<>> \/ Len(SignedParts) > 1
      /\ SignedParts # <<>> <=> Multipart(written)
  <2>1. Len(<<>>) = 0
    BY EmptySeq
  <2> QED BY <1>2, <1>4, <2>1 DEF SignedParts, Multipart
<1>7. Decoded(SignedParts) # SignedParts <=>
        /\ route = "api" /\ Multipart(written)
        /\ \E i \in DOMAIN written.parts : written.parts[i].coding = "quoted"
  <2>1. CASE ~Multipart(written)
    BY <1>6, <2>1, EmptyDecoded
  <2>2. CASE Multipart(written) /\ route = "api"
    <3>1. SignedParts = written.parts
      BY <1>4, <2>2 DEF SignedParts, FirstParts, Multipart
    <3> QED BY <1>2, <2>2, <3>1, DecodedParts
  <2>3. CASE Multipart(written) /\ route = "reader"
    <3>1. SignedParts = Decoded(written.parts)
      BY <1>4, <2>3 DEF SignedParts, FirstParts, Multipart
    <3> QED BY <1>2, <2>3, <3>1, DecodedParts
  <2> QED BY <1>1, <2>1, <2>2, <2>3
<1> QED BY <1>2, <1>3, <1>4, <1>5, <1>6, <1>7

(* Fragile, of the fields. *)
LEMMA FragileFields ==
  ASSUME WrittenOK
  PROVE  Fragile(written) <=>
            \/ Contains(FirstText, "percent") \/ CutAt(written.type, FirstText) # 0
            \/ SignedParts = <<>> /\ ~EndsLine(FirstText)
            \/ Decoded(SignedParts) # SignedParts
<1>1. Has(FirstText, "percent") <=> Contains(FirstText, "percent")
  BY FirstFields DEF Has, Contains
<1>2. CASE route = "api"
  <2>1. FirstText = written.text
    BY <1>2 DEF FirstText
  <2> QED BY <1>1, <1>2, <2>1, FirstFields DEF Fragile, CutShort
<1>3. CASE route = "reader"
  <2>1. FirstText = Signed(written) /\ route # "api"
    BY <1>3 DEF FirstText
  <2> QED BY <1>1, <1>3, <2>1, FirstFields DEF Fragile
<1> QED BY <1>2, <1>3 DEF WrittenOK

LEMMA Stands ==
  ASSUME WrittenOK, ~Fragile(written)
  PROVE  /\ Sent(Data) = Data /\ ParseBody(Data) = Data /\ writeRaw(Data) = Data
         /\ Data = Body(written.type, written.control, FirstText, 0, SignedParts)
<1>1. /\ ~Contains(FirstText, "percent") /\ CutAt(written.type, FirstText) = 0
      /\ SignedParts # <<>> \/ EndsLine(FirstText)
      /\ Decoded(SignedParts) = SignedParts
  BY FragileFields
<1>2. Data = Body(written.type, written.control, FirstText, 0, SignedParts)
  BY <1>1, FirstFields
<1> QED BY <1>1, <1>2, Fixed, FirstFields

LEMMA EndedText ==
  ASSUME NEW text \in Seq(Pieces), NEW parts
  PROVE  /\ Contains(text, "percent") => Contains(Ended(text, parts), "percent")
         /\ parts = <<>> /\ ~EndsLine(text) => Ended(text, parts) # text
<1>1. Len(Append(text, "nl")) = Len(text) + 1 /\ Len(text) \in Nat
  BY CutAppend
<1>2. Contains(text, "percent") => Contains(Append(text, "nl"), "percent")
  BY CutAppend
<1>3. Append(text, "nl") # text
  BY <1>1
<1> QED BY <1>2, <1>3 DEF Ended

(* What a program has made is refused where it first arrives. *)
LEMMA ProgramBreaks ==
  ASSUME WrittenOK, Fragile(written), route = "api"
  PROVE  Again(Data) # Data
<1> DEFINE t == written.type
           c == written.control
           x == FirstText
           n == IF Contains(FirstText, "percent") THEN 0 + 1 ELSE 0
           ps == SignedParts
           e == Ended(x, ps)
           n2 == IF Contains(e, "percent") THEN n + 1 ELSE n
           ps2 == IF Len(Decoded(ps)) > 1 THEN Decoded(ps) ELSE <<>>
<1>1. Data = Body(t, c, x, n, ps) /\ x \in Seq(Pieces)
  BY FirstFields
<1>2. CASE CutAt(t, x) # 0
  BY <1>1, <1>2, AgainCut
<1>3. CASE CutAt(t, x) = 0
  <2>1. Again(Data) = Body(t, c, e, n2, ps2)
    BY <1>1, <1>3, AgainUncut
  <2>2. e # x \/ n2 # n \/ ps2 # ps
    <3>1. CASE Contains(x, "percent")
      <4>1. Contains(e, "percent")
        BY <1>1, <3>1, EndedText
      <4> QED BY <3>1, <4>1
    <3>2. CASE ps = <<>> /\ ~EndsLine(x)
      BY <1>1, <3>2, EndedText
    <3>3. CASE Decoded(ps) # ps
      <4>1. ps # <<>>
        BY <3>3, EmptyDecoded
      <4> QED BY <3>3, <4>1
    <3> QED BY <1>3, <3>1, <3>2, <3>3, FragileFields
  <2> HIDE DEF x, n, ps, e, n2, ps2
  <2> QED BY <1>1, <2>1, <2>2, BodyEqual
<1> QED BY <1>2, <1>3

(* What a node has signed for a reader, where it first arrives from there. *)
LEMMA ReaderBreaks ==
  ASSUME WrittenOK, Fragile(written), route = "reader"
  PROVE  Again(writeRaw(ParseBody(Data))) # Data
<1> DEFINE t == written.type
           c == written.control
           x == FirstText
           n == IF Contains(FirstText, "percent") THEN 0 + 1 ELSE 0
           ps == SignedParts
           m == IF Contains(x, "percent") THEN n + 1 ELSE n
           e == Ended(x, ps)
           m2 == IF Contains(e, "percent") THEN m + 1 ELSE m
           ps2 == IF Len(Decoded(ps)) > 1 THEN Decoded(ps) ELSE <<>>
<1>1. /\ Data = Body(t, c, x, n, ps) /\ x \in Seq(Pieces) /\ CutAt(t, x) = 0
      /\ ps = <<>> \/ Len(ps) > 1
      /\ Decoded(ps) = ps
  BY FirstFields
<1>2. ParseBody(Body(t, c, x, n, ps)) = Body(t, c, x, n, Decoded(ps))
  BY <1>1, Operators
<1>3. writeRaw(Body(t, c, x, n, ps)) = Body(t, c, x, m, IF Len(ps) > 1 THEN ps ELSE <<>>)
  BY Operators
<1>4. writeRaw(ParseBody(Data)) = Body(t, c, x, m, ps)
  BY <1>1, <1>2, <1>3
<1>5. Again(Body(t, c, x, m, ps)) = Body(t, c, e, m2, ps2)
  BY <1>1, AgainUncut
<1>6. e # x \/ m2 # n
  <2>1. CASE Contains(x, "percent")
    <3>1. Contains(e, "percent")
      BY <1>1, <2>1, EndedText
    <3> QED BY <2>1, <3>1
  <2>2. CASE ps = <<>> /\ ~EndsLine(x)
    BY <1>1, <2>2, EndedText
  <2> QED BY <1>1, <2>1, <2>2, FragileFields
<1> HIDE DEF x, n, ps, m, e, m2, ps2
<1> QED BY <1>1, <1>4, <1>5, <1>6, BodyEqual
-----------------------------------------------------------------------------
(* Control messages, as made and as read. *)

LEMMA WordsOf ==
  ASSUME NEW parts, NEW n \in Nat, DOMAIN parts = 1 .. n, NEW type, NEW i \in 1 .. n,
         parts[i].type = type, \A j \in 1 .. n : j # i => parts[j].type # type
  PROVE  Words(parts, type) = parts[i].words
<1> DEFINE those == {j \in DOMAIN parts : parts[j].type = type}
<1>1. those = {i}
  OBVIOUS
<1>2. (CHOOSE k \in those : \A j \in those : j <= k) = i
  <2>1. \A k \in those : k = i
    BY <1>1
  <2>2. i \in those /\ \A j \in those : j <= i
    BY <1>1
  <2> HIDE DEF those
  <2> QED BY <2>1, <2>2
<1>3. those # {}
  BY <1>1
<1> QED BY <1>2, <1>3 DEF Words

LEMMA WordsOfNone ==
  ASSUME NEW parts, NEW type, \A j \in DOMAIN parts : parts[j].type # type
  PROVE  Words(parts, type) = <<>>
BY DEF Words

LEMMA SmallTuples ==
  ASSUME NEW a, NEW b, NEW c
  PROVE  /\ <<a>> \o <<>> = <<a>> /\ <<a>> \o <<b>> = <<a, b>> /\ <<a>> \o <<b, c>> = <<a, b, c>>
         /\ <<a, b>> \o <<>> = <<a, b>> /\ <<a, b>> \o <<c>> = <<a, b, c>>
<1> DEFINE S == {a, b, c}
<1>1. /\ <<a>> \in Seq(S) /\ <<b>> \in Seq(S) /\ <<c>> \in Seq(S)
      /\ <<a, b>> \in Seq(S) /\ <<b, c>> \in Seq(S) /\ <<a, b, c>> \in Seq(S)
  OBVIOUS
<1>2. /\ Len(<<a>>) = 1 /\ Len(<<b>>) = 1 /\ Len(<<c>>) = 1
      /\ Len(<<a, b>>) = 2 /\ Len(<<b, c>>) = 2 /\ Len(<<a, b, c>>) = 3
      /\ <<a>>[1] = a /\ <<b>>[1] = b /\ <<c>>[1] = c
      /\ <<a, b>>[1] = a /\ <<a, b>>[2] = b /\ <<b, c>>[1] = b /\ <<b, c>>[2] = c
      /\ <<a, b, c>>[1] = a /\ <<a, b, c>>[2] = b /\ <<a, b, c>>[3] = c
  OBVIOUS
<1> HIDE DEF S
<1>3. <<a>> \o <<b>> = <<a, b>>
  <2> DEFINE joined == <<a>> \o <<b>>
  <2>1. /\ joined \in Seq(S) /\ Len(joined) = 1 + 1
        /\ \A i \in 1 .. 1 + 1 : joined[i] = IF i <= 1 THEN <<a>>[i] ELSE <<b>>[i - 1]
    BY <1>1, <1>2, ConcatProperties
  <2> HIDE DEF joined
  <2>2. joined[1] = a /\ joined[2] = b
    BY <1>2, <2>1
  <2>3. \A i \in 1 .. 2 : joined[i] = <<a, b>>[i]
    BY <1>2, <2>2
  <2>4. joined = <<a, b>>
    BY <1>1, <1>2, <2>1, <2>3, SeqEqual
  <2> QED BY <2>4 DEF joined
<1>4. <<a>> \o <<b, c>> = <<a, b, c>>
  <2> DEFINE joined == <<a>> \o <<b, c>>
  <2>1. /\ joined \in Seq(S) /\ Len(joined) = 1 + 2
        /\ \A i \in 1 .. 1 + 2 : joined[i] = IF i <= 1 THEN <<a>>[i] ELSE <<b, c>>[i - 1]
    BY <1>1, <1>2, ConcatProperties
  <2> HIDE DEF joined
  <2>2. joined[1] = a /\ joined[2] = b /\ joined[3] = c
    BY <1>2, <2>1
  <2>3. \A i \in 1 .. 3 : joined[i] = <<a, b, c>>[i]
    BY <1>2, <2>2
  <2>4. joined = <<a, b, c>>
    BY <1>1, <1>2, <2>1, <2>3, SeqEqual
  <2> QED BY <2>4 DEF joined
<1>5. <<a, b>> \o <<c>> = <<a, b, c>>
  <2> DEFINE joined == <<a, b>> \o <<c>>
  <2>1. /\ joined \in Seq(S) /\ Len(joined) = 2 + 1
        /\ \A i \in 1 .. 2 + 1 : joined[i] = IF i <= 2 THEN <<a, b>>[i] ELSE <<c>>[i - 2]
    BY <1>1, <1>2, ConcatProperties
  <2> HIDE DEF joined
  <2>2. joined[1] = a /\ joined[2] = b /\ joined[3] = c
    BY <1>2, <2>1
  <2>3. \A i \in 1 .. 3 : joined[i] = <<a, b, c>>[i]
    BY <1>2, <2>2
  <2>4. joined = <<a, b, c>>
    BY <1>1, <1>2, <2>1, <2>3, SeqEqual
  <2> QED BY <2>4 DEF joined
<1> QED BY <1>1, <1>3, <1>4, <1>5, ConcatEmptySeq

(* Two or three parts, as the Create functions make them. *)
LEMMA PartTuples ==
  ASSUME NEW a, NEW b, NEW c,
         \A p \in {a, b, c} : /\ p = [type |-> p.type, coding |-> p.coding, words |-> p.words]
                             /\ p.coding = "8bit",
         NEW parts, parts \in {<<a, b>>, <<a, b, c>>}
  PROVE  /\ IsParts(parts) /\ Len(parts) > 1 /\ parts # <<>>
         /\ \A i \in DOMAIN parts : parts[i].coding = "8bit"
<1>1. /\ parts \in Seq(Range(parts)) /\ Len(parts) \in {2, 3}
      /\ \A i \in DOMAIN parts : parts[i] \in {a, b, c}
  <2>1. CASE parts = <<a, b>>
    <3>1. DOMAIN parts = 1 .. 2 /\ Len(parts) = 2 /\ parts[1] = a /\ parts[2] = b
      BY <2>1
    <3> QED BY <2>1, <3>1 DEF Range
  <2>2. CASE parts = <<a, b, c>>
    <3>1. DOMAIN parts = 1 .. 3 /\ Len(parts) = 3 /\ parts[1] = a /\ parts[2] = b /\ parts[3] = c
      BY <2>2
    <3> QED BY <2>2, <3>1 DEF Range
  <2> QED BY <2>1, <2>2
<1>2. Len(parts) > 1 /\ parts # <<>>
  BY <1>1, EmptySeq
<1>3. \A i \in DOMAIN parts :
        /\ parts[i] = [type |-> parts[i].type, coding |-> parts[i].coding, words |-> parts[i].words]
        /\ parts[i].coding = "8bit"
  BY <1>1
<1> QED BY <1>1, <1>2, <1>3 DEF IsParts

LEMMA PartFields ==
  ASSUME NEW type, NEW words
  PROVE  LET p == Part(type, words)
         IN  /\ p = [type |-> p.type, coding |-> p.coding, words |-> p.words]
             /\ p.coding = "8bit" /\ p.type = type /\ p.words = words
BY DEF Part

(* The parts of a newgroup message. *)
InfoParts(info, card) ==
    <<Part("groupinfo", info), Part("text", <<>>)>>
    \o IF card = NoCard THEN <<>> ELSE <<Part("vcard", <<card>>)>>

LEMMA InfoPartsFields ==
  ASSUME NEW info, NEW card
  PROVE  LET parts == InfoParts(info, card)
         IN  /\ IsParts(parts) /\ Len(parts) > 1 /\ parts # <<>>
             /\ \A i \in DOMAIN parts : parts[i].coding = "8bit"
             /\ Words(parts, "groupinfo") = info
             /\ Words(parts, "vcard") = IF card = NoCard THEN <<>> ELSE <<card>>
<1> DEFINE a == Part("groupinfo", info)
           b == Part("text", <<>>)
           c == Part("vcard", <<card>>)
           parts == InfoParts(info, card)
<1>1. parts = IF card = NoCard THEN <<a, b>> ELSE <<a, b, c>>
  <2>1. parts = <<a, b>> \o IF card = NoCard THEN <<>> ELSE <<c>>
    BY DEF InfoParts
  <2> HIDE DEF a, b, c, parts
  <2> QED BY <2>1, SmallTuples
<1>2. /\ \A p \in {a, b, c} : /\ p = [type |-> p.type, coding |-> p.coding, words |-> p.words]
                             /\ p.coding = "8bit"
      /\ a.type = "groupinfo" /\ b.type = "text" /\ c.type = "vcard"
      /\ a.words = info /\ c.words = <<card>>
  BY PartFields
<1> HIDE DEF a, b, c, parts
<1>3. /\ IsParts(parts) /\ Len(parts) > 1 /\ parts # <<>>
      /\ \A i \in DOMAIN parts : parts[i].coding = "8bit"
  <2>1. parts \in {<<a, b>>, <<a, b, c>>}
    BY <1>1
  <2> QED BY <1>2, <2>1, PartTuples
<1>4. CASE card = NoCard
  <2>1. DOMAIN parts = 1 .. 2 /\ parts[1] = a /\ parts[2] = b
    BY <1>1, <1>4
  <2>2. Words(parts, "groupinfo") = info
    <3>1. \A j \in 1 .. 2 : j # 1 => parts[j].type # "groupinfo"
      BY <1>2, <2>1
    <3> QED BY <1>2, <2>1, <3>1, WordsOf, 2 \in Nat, 1 \in 1 .. 2
  <2>3. Words(parts, "vcard") = <<>>
    BY <1>2, <2>1, WordsOfNone
  <2> QED BY <1>3, <1>4, <2>2, <2>3 DEF parts
<1>5. CASE card # NoCard
  <2>1. DOMAIN parts = 1 .. 3 /\ parts[1] = a /\ parts[2] = b /\ parts[3] = c
    BY <1>1, <1>5
  <2>2. Words(parts, "groupinfo") = info
    <3>1. \A j \in 1 .. 3 : j # 1 => parts[j].type # "groupinfo"
      BY <1>2, <2>1
    <3> QED BY <1>2, <2>1, <3>1, WordsOf, 3 \in Nat, 1 \in 1 .. 3
  <2>3. Words(parts, "vcard") = <<card>>
    <3>1. \A j \in 1 .. 3 : j # 3 => parts[j].type # "vcard"
      BY <1>2, <2>1
    <3> QED BY <1>2, <2>1, <3>1, WordsOf, 3 \in Nat, 3 \in 1 .. 3
  <2> QED BY <1>3, <1>5, <2>2, <2>3 DEF parts
<1> QED BY <1>4, <1>5

(* The words of a group's line, without its name, its first word and the
   flag. *)
LEMMA Described ==
  ASSUME NEW name, NEW description, description \in Seq(Range(description)), description # <<>>,
         NEW word, NEW flag, flag \in {<<>>, <<word>>}
  PROVE  LET data == <<name>> \o description \o flag
         IN  SubSeq(data, 3, Len(data) - Len(flag)) = Tail(description)
<1> DEFINE S == {name, word} \union Range(description)
           front == <<name>> \o description
           data == front \o flag
           n == Len(description)
<1>1. /\ <<name>> \in Seq(S) /\ Len(<<name>>) = 1 /\ flag \in Seq(S) /\ Len(flag) \in {0, 1}
  <2>1. name \in S /\ word \in S
    OBVIOUS
  <2> HIDE DEF S
  <2>2. <<name>> \in Seq(S) /\ Len(<<name>>) = 1
    BY <2>1
  <2>3. CASE flag = <<>>
    BY <2>2, <2>3, EmptySeq
  <2>4. CASE flag = <<word>>
    BY <2>1, <2>2, <2>4
  <2> QED BY <2>3, <2>4
<1>2. description \in Seq(S) /\ n \in Nat \ {0}
  BY SeqMonotonic, EmptySeq
<1> HIDE DEF S
<1>3. /\ front \in Seq(S) /\ Len(front) = 1 + n
      /\ \A i \in 1 .. 1 + n : front[i] = IF i <= 1 THEN <<name>>[i] ELSE description[i - 1]
  BY <1>1, <1>2, ConcatProperties
<1> HIDE DEF front
<1>4. /\ data \in Seq(S) /\ Len(data) = 1 + n + Len(flag)
      /\ \A i \in 1 .. 1 + n : data[i] = front[i]
  <2> DEFINE k == Len(front)
             f == Len(flag)
  <2>1. /\ data \in Seq(S) /\ Len(data) = k + f
        /\ \A i \in 1 .. k + f : data[i] = IF i <= k THEN front[i] ELSE flag[i - k]
    BY <1>1, <1>3, ConcatProperties
  <2>2. k = 1 + n /\ f \in Nat
    BY <1>1, <1>3
  <2> HIDE DEF k, data
  <2>3. ASSUME NEW i \in 1 .. 1 + n PROVE data[i] = front[i]
    <3>1. i \in 1 .. k + f /\ i <= k
      BY <1>2, <2>2
    <3> QED BY <2>1, <3>1
  <2> QED BY <2>1, <2>2, <2>3 DEF data
<1> HIDE DEF data
<1> DEFINE read == SubSeq(data, 3, 1 + n)
<1>5. Len(data) - Len(flag) = 1 + n
  BY <1>1, <1>2, <1>4
<1>6. /\ read \in Seq(S) /\ Len(read) = IF 3 <= 1 + n THEN (1 + n) - 3 + 1 ELSE 0
      /\ \A i \in 1 .. (1 + n) - 3 + 1 : read[i] = data[3 + i - 1]
  <2>1. \A i \in 3 .. 1 + n : data[i] \in S
    BY <1>1, <1>2, <1>4, ElementOfSeq
  <2> QED BY <1>2, <2>1, SubSeqProperties, 3 \in Int, 1 + n \in Int
<1>7. /\ Tail(description) \in Seq(S) /\ Len(Tail(description)) = n - 1
      /\ \A i \in 1 .. n - 1 : Tail(description)[i] = description[i + 1]
  BY <1>2, HeadTailProperties
<1> HIDE DEF read
<1>8. Len(read) = Len(Tail(description))
  <2>1. Len(read) = IF 3 <= 1 + n THEN (1 + n) - 3 + 1 ELSE 0
    BY <1>6
  <2>2. Len(Tail(description)) = n - 1
    BY <1>7
  <2> HIDE DEF n
  <2>3. 3 <= 1 + n => (1 + n) - 3 + 1 = n - 1
    BY <1>2
  <2>4. ~(3 <= 1 + n) => 0 = n - 1
    BY <1>2
  <2> QED BY <2>1, <2>2, <2>3, <2>4
<1>9. \A i \in 1 .. Len(read) : read[i] = Tail(description)[i]
  <2> SUFFICES ASSUME NEW i \in 1 .. n - 1 PROVE read[i] = Tail(description)[i]
    BY <1>7, <1>8
  <2>1. read[i] = data[i + 2]
    BY <1>2, <1>6
  <2>2. data[i + 2] = front[i + 2]
    BY <1>1, <1>2, <1>4
  <2>3. front[i + 2] = description[i + 1]
    BY <1>2, <1>3
  <2> QED BY <1>7, <2>1, <2>2, <2>3
<1>10. read = Tail(description)
  BY <1>6, <1>7, <1>8, <1>9, SeqEqual
<1> QED BY <1>5, <1>10 DEF read, data, front

(* What CheckControl makes of a newgroup message at a node. *)
CallsGroup(m, owner, session, name, description, card) ==
    /\ m.control[2] = name
    /\ CheckControl(m, owner, session) =
          <<Call("NewGroup", name, Tail(description), card)>> \o AddPeerCall(m, session)

LEMMA NewsGroupRead ==
  ASSUME NEW owner, NEW rest, NEW name, name = <<owner>> \o rest, name[1] = owner,
         NEW description, description \in Seq(Range(description)), description # <<>>,
         NEW posting, NEW card, NEW session, NEW m,
         written = CreateNewsGroupMail(owner, rest, description, posting, card),
         m.control = written.control, m.parts = written.parts
  PROVE  CallsGroup(m, owner, session, name, description, card)
<1> DEFINE flag == Moderated(posting)
           info == <<name>> \o description \o flag
<1>1. flag \in {<<>>, <<"moderated">>} /\ Len(flag) = IF flag = <<>> THEN 0 ELSE 1
  <2>1. Len(<<>>) = 0 /\ Len(<<"moderated">>) = 1 /\ <<"moderated">> # <<>>
    OBVIOUS
  <2> QED BY <2>1 DEF Moderated
<1>2. m.control = <<"newgroup", name>> \o flag /\ m.parts = InfoParts(info, card)
  BY DEF CreateNewsGroupMail, Mail, InfoParts
<1> HIDE DEF flag, info
<1>3. /\ m.control = IF flag = <<>> THEN <<"newgroup", name>> ELSE <<"newgroup", name, "moderated">>
      /\ Len(m.control) = IF flag = <<>> THEN 2 ELSE 3
      /\ m.control[1] = "newgroup" /\ m.control[2] = name /\ m.control # <<>>
  <2>1. CASE flag = <<>>
    <3>1. m.control = <<"newgroup", name>>
      BY <1>2, <2>1, SmallTuples
    <3> QED BY <2>1, <3>1
  <2>2. CASE flag = <<"moderated">>
    <3>1. m.control = <<"newgroup", name, "moderated">> /\ flag # <<>>
      BY <1>2, <2>2, SmallTuples
    <3> QED BY <3>1
  <2> QED BY <1>1, <2>1, <2>2
<1>4. Words(m.parts, "groupinfo") = info
      /\ Words(m.parts, "vcard") = IF card = NoCard THEN <<>> ELSE <<card>>
  BY <1>2, InfoPartsFields
<1>5. (IF Len(m.control) = 3 THEN 1 ELSE 0) = Len(flag)
  BY <1>1, <1>3
<1>6. SubSeq(info, 3, Len(info) - Len(flag)) = Tail(description)
  <2> DEFINE word == "moderated"
  <2>1. flag \in {<<>>, <<word>>}
    BY <1>1
  <2> HIDE DEF word
  <2> QED BY <2>1, Described DEF info
<1>7. (IF Words(m.parts, "vcard") = <<>> THEN NoCard ELSE Words(m.parts, "vcard")[1]) = card
  <2>1. <<card>> # <<>> /\ <<card>>[1] = card
    OBVIOUS
  <2> QED BY <1>4, <2>1
<1>8. NewGroupCall(m) = Call("NewGroup", name, Tail(description), card)
  BY <1>3, <1>4, <1>5, <1>6, <1>7 DEF NewGroupCall
<1>9. CheckControl(m, owner, session) = <<NewGroupCall(m)>> \o AddPeerCall(m, session)
  BY <1>3 DEF CheckControl
<1> QED BY <1>3, <1>8, <1>9 DEF CallsGroup

LEMMA OrderUnderstood ==
  ASSUME order \in Orders, NEW owner, MadeFor(owner), NEW session, NEW m,
         m.control = written.control, m.parts = written.parts
  PROVE  Understood(CheckControl(m, owner, session), order, owner, session)
<1>1. /\ order.what \in {"newgroup", "peer", "checkgroups", "sendme"}
      /\ order.words \in Seq(Range(order.words)) /\ order.words # <<>>
  BY CodecAssumption
<1>0. DOMAIN <<>> = {}
  BY EmptySeq, LenProperties
<1>2. CASE order.what = "newgroup"
  <2> DEFINE rest == <<"chat">>
             name == <<owner>> \o rest
  <2>1. PICK posting : written = CreateNewsGroupMail(owner, rest, order.words, posting, order.card)
    BY <1>2 DEF MadeFor, MadeAs
  <2>2. name = <<owner, "chat">>
    BY SmallTuples
  <2>3. name[1] = owner /\ Len(name) # 3
    BY <2>2
  <2> HIDE DEF name, rest
  <2>4. name = <<owner>> \o rest
    BY DEF name
  <2>5. /\ m.control[2] = name
        /\ CheckControl(m, owner, session) =
             <<Call("NewGroup", name, Tail(order.words), order.card)>> \o AddPeerCall(m, session)
    <3>1. CallsGroup(m, owner, session, name, order.words, order.card)
      BY <1>1, <2>1, <2>3, <2>4, NewsGroupRead
    <3> QED BY <3>1 DEF CallsGroup
  <2>6. AddPeerCall(m, session) = <<>>
    BY <2>3, <2>5 DEF AddPeerCall
  <2>7. CheckControl(m, owner, session) = <<Call("NewGroup", name, Tail(order.words), order.card)>>
    BY <2>5, <2>6, SmallTuples
  <2>8. /\ Len(CheckControl(m, owner, session)) = 1
        /\ CheckControl(m, owner, session)[1] = Call("NewGroup", name, Tail(order.words), order.card)
    BY <2>7
  <2> QED BY <1>2, <2>8 DEF Understood, name, rest
<1>3. CASE order.what = "peer"
  <2> DEFINE peer == order.words[1]
             rest == <<"peers", peer>>
             description == <<"peer", "group">>
             name == <<owner>> \o rest
             first == Call("NewGroup", name, Tail(description), order.card)
  <2>1. written = CreateNewsGroupMail(owner, rest, description, "permitted", order.card)
    BY <1>3 DEF MadeFor, MadeAs, CreatePeerGroup
  <2>2. description \in Seq(Range(description)) /\ description # <<>>
    BY DEF Range
  <2> HIDE DEF description
  <2>3. name = <<owner, "peers", peer>>
    BY SmallTuples
  <2>4. name[1] = owner /\ name[2] = "peers" /\ Len(name) = 3
    BY <2>3
  <2> HIDE DEF name, rest
  <2>5. name = <<owner>> \o rest
    BY DEF name
  <2>6. /\ m.control[2] = name
        /\ CheckControl(m, owner, session) = <<first>> \o AddPeerCall(m, session)
    <3>1. CallsGroup(m, owner, session, name, description, order.card)
      BY <2>1, <2>2, <2>4, <2>5, NewsGroupRead
    <3> QED BY <3>1 DEF CallsGroup
  <2> HIDE DEF first
  <2>7. CASE owner = session
    <3> DEFINE second == Call("AddPeer", <<name[3]>>, <<>>, NoCard)
    <3>1. AddPeerCall(m, session) = <<second>>
      BY <2>4, <2>6, <2>7 DEF AddPeerCall
    <3> HIDE DEF second
    <3>2. CheckControl(m, owner, session) = <<first, second>>
      BY <2>6, <3>1, SmallTuples
    <3>3. second = Call("AddPeer", <<peer>>, <<>>, NoCard)
      BY <2>3 DEF second, name, rest
    <3>4. /\ Len(CheckControl(m, owner, session)) = 2
          /\ CheckControl(m, owner, session)[1] = first
          /\ CheckControl(m, owner, session)[2] = second
      BY <3>2
    <3> QED BY <1>3, <2>7, <3>3, <3>4 DEF Understood, first, name, rest, description
  <2>8. CASE owner # session
    <3>1. AddPeerCall(m, session) = <<>>
      BY <2>4, <2>6, <2>8 DEF AddPeerCall
    <3>2. CheckControl(m, owner, session) = <<first>>
      BY <2>6, <3>1, SmallTuples
    <3>3. /\ Len(CheckControl(m, owner, session)) = 1
          /\ CheckControl(m, owner, session)[1] = first
      BY <3>2
    <3> QED BY <1>3, <2>8, <3>3 DEF Understood, first, name, rest, description
  <2> QED BY <2>7, <2>8
<1>4. CASE order.what \in {"checkgroups", "sendme"}
  <2>1. CASE order.what = "checkgroups"
    <3>1. m.control = <<"checkgroups", Device>>
      BY <2>1 DEF MadeFor, MadeAs, CreateCheckgroups, Mail
    <3>2. m.control # <<>> /\ m.control[1] = "checkgroups"
      BY <3>1
    <3>3. CheckControl(m, owner, session) = <<>>
      BY <3>2 DEF CheckControl
    <3> QED BY <1>0, <2>1, <3>3 DEF Understood
  <2>2. CASE order.what = "sendme"
    <3>1. m.control = <<"semdme", Device>>
      BY <2>2 DEF MadeFor, MadeAs, CreateSendme, Mail
    <3>2. m.control # <<>> /\ m.control[1] = "semdme"
      BY <3>1
    <3>3. CheckControl(m, owner, session) = <<>>
      BY <3>2 DEF CheckControl
    <3> QED BY <1>0, <2>2, <3>3 DEF Understood
  <2> QED BY <1>4, <2>1, <2>2
<1> QED BY <1>1, <1>2, <1>3, <1>4

(* Every message that is made, is one, and will stand the way. *)
LEMMA MadeMessage ==
  ASSUME NEW w, NEW o \in Orders, NEW owner, MadeAs(w, o, owner)
  PROVE  /\ IsMessage(w) /\ w.type = "mixed" /\ w.text = <<"text">>
         /\ Len(w.parts) > 1
         /\ \A i \in DOMAIN w.parts : w.parts[i].coding = "8bit"
<1>1. o.what \in {"newgroup", "peer", "checkgroups", "sendme"}
  BY CodecAssumption
<1>2. <<"text">> \in Seq(Pieces)
  BY DEF Pieces
<1>3. CASE o.what \in {"newgroup", "peer"}
  <2>1. PICK rest, description, posting :
          w = CreateNewsGroupMail(owner, rest, description, posting, o.card)
    BY <1>3 DEF MadeAs, CreatePeerGroup
  <2>2. PICK info : /\ w.type = "mixed" /\ w.text = <<"text">>
                    /\ w.parts = InfoParts(info, o.card)
    BY <2>1 DEF CreateNewsGroupMail, Mail, InfoParts
  <2> QED BY <1>2, <2>2, InfoPartsFields DEF IsMessage
<1>4. CASE o.what = "checkgroups"
  <2> DEFINE a == Part("checkgroups", o.words)
             b == Part("text", <<>>)
  <2>1. w.type = "mixed" /\ w.text = <<"text">> /\ w.parts = <<a, b>>
    BY <1>4 DEF MadeAs, CreateCheckgroups, Mail
  <2>2. \A p \in {a, b, b} : /\ p = [type |-> p.type, coding |-> p.coding, words |-> p.words]
                             /\ p.coding = "8bit"
    BY PartFields
  <2> HIDE DEF a, b
  <2>3. w.parts \in {<<a, b>>, <<a, b, b>>}
    BY <2>1
  <2>4. /\ IsParts(w.parts) /\ Len(w.parts) > 1
        /\ \A i \in DOMAIN w.parts : w.parts[i].coding = "8bit"
    BY <2>2, <2>3, PartTuples
  <2> QED BY <1>2, <2>1, <2>4 DEF IsMessage
<1>5. CASE o.what = "sendme"
  <2> DEFINE a == Part("newsfeed", o.words)
             b == Part("checkgroups", <<>>)
             c == Part("text", <<>>)
  <2>1. w.type = "mixed" /\ w.text = <<"text">> /\ w.parts = <<a, b, c>>
    BY <1>5 DEF MadeAs, CreateSendme, Mail
  <2>2. \A p \in {a, b, c} : /\ p = [type |-> p.type, coding |-> p.coding, words |-> p.words]
                             /\ p.coding = "8bit"
    BY PartFields
  <2> HIDE DEF a, b, c
  <2>3. w.parts \in {<<a, b>>, <<a, b, c>>}
    BY <2>1
  <2>4. /\ IsParts(w.parts) /\ Len(w.parts) > 1
        /\ \A i \in DOMAIN w.parts : w.parts[i].coding = "8bit"
    BY <2>2, <2>3, PartTuples
  <2> QED BY <1>2, <2>1, <2>4 DEF IsMessage
<1> QED BY <1>1, <1>3, <1>4, <1>5
-----------------------------------------------------------------------------
(* The steps. *)

LEMMA QuietKeeps ==
  ASSUME KeyInv, UNCHANGED <<keyType, field, installed, spoiled>>, answer' \in {answer, NoAnswer}
  PROVE  KeyInv' /\ Held(Form)' = Held(Form)
<1>1. KeyTypeOK'
  BY NoAnswerType DEF KeyInv, KeyTypeOK
<1>2. HeldIsLast'
  BY DEF KeyInv, HeldIsLast
<1>3. AnswersForLastKey'
  BY KeyAssumption, NoAnswerType DEF KeyInv, AnswersForLastKey
<1>4. Held(Form)' = Held(Form)
  BY DEF Held
<1> QED BY <1>1, <1>2, <1>3, <1>4 DEF KeyInv

(* What is signed depends on nothing but the message and its way in. *)
LEMMA SameData ==
  ASSUME UNCHANGED <<written, route>>
  PROVE  /\ Data' = Data /\ FirstTool(written)' = FirstTool(written)
         /\ Fragile(written)' = Fragile(written) /\ WrittenOK' = WrittenOK
<1>1. FirstTool(written)' = FirstTool(written)
  BY DEF FirstTool
<1>2. Data' = Data
  BY <1>1 DEF Data
<1>3. Fragile(written)' = Fragile(written)
  BY DEF Fragile
<1>4. WrittenOK' = WrittenOK
  BY DEF WrittenOK
<1> QED BY <1>1, <1>2, <1>3, <1>4

LEMMA SameMade ==
  ASSUME UNCHANGED <<written, order>>
  PROVE  \A owner : MadeFor(owner)' = MadeFor(owner)
BY DEF MadeFor

LEMMA MadeIsMessage ==
  ASSUME order' \in Orders, NEW owner, MadeFor(owner)'
  PROVE  IsMessage(written)'
BY MadeMessage DEF MadeFor

LEMMA InitialCodec == Init => CodecInv
<1> SUFFICES ASSUME Init PROVE CodecInv
  OBVIOUS
<1>1. KeyInv
  BY KeyInvInit DEF Init
<1>2. phase = "write" /\ hop = 0 /\ order = NoOrder
  BY DEF Init
<1> QED BY <1>1, <1>2 DEF CodecInv, WrittenInv, SignedInv, TransitInv, OrderInv,
                          ControlUnderstood, Underway

LEMMA KeyStepKeeps ==
  ASSUME CodecInv, UseKey \/ GiveKey
  PROVE  CodecInv'
<1>1. KeyInv'
  <2>1. KeyInv /\ KeyNext
    BY DEF CodecInv, KeyNext, UseKey, GiveKey
  <2> QED BY <2>1, KeyInvNext
<1>2. phase' = "write" /\ UNCHANGED message /\ hop' = 0 /\ order' = NoOrder
  BY DEF CodecInv, WrittenInv, UseKey, GiveKey, message
<1> QED BY <1>1, <1>2 DEF CodecInv, WrittenInv, SignedInv, TransitInv, OrderInv,
                          ControlUnderstood, Underway

LEMMA ComposeKeeps ==
  ASSUME CodecInv, NEW m, Compose(m), IsMessage(m),
         order' = NoOrder \/ (order' \in Orders /\ MadeFor(Held(Form))')
  PROVE  CodecInv'
<1>1. KeyInv' /\ hop' = hop /\ hop = 0
  BY QuietKeeps DEF CodecInv, WrittenInv, Compose
<1>2. /\ phase' = "sign" /\ written' = m /\ route' = "api"
      /\ tool' = [type |-> m.type, control |-> m.control, pre |-> Plain0(m.text), parts |-> m.parts]
  BY DEF Compose
<1>3. tool' = FirstTool(written)' /\ WrittenOK'
  BY <1>2 DEF FirstTool, ProgramTool, WrittenOK
<1> QED BY <1>1, <1>2, <1>3 DEF CodecInv, WrittenInv, SignedInv, TransitInv, OrderInv,
                                ControlUnderstood, Underway

LEMMA AuthorKeeps ==
  ASSUME CodecInv, Author
  PROVE  CodecInv'
<1>1. CASE UseKey \/ GiveKey
  BY <1>1, KeyStepKeeps
<1>2. ASSUME NEW m \in Messages, Own(m) PROVE CodecInv'
  <2>1. Compose(m) /\ order' = NoOrder /\ IsMessage(m)
    BY <1>2, CodecAssumption DEF CodecInv, WrittenInv, Own, Compose
  <2> QED BY <2>1, ComposeKeeps
<1>3. ASSUME NEW m \in Messages, ReaderPosts(m) PROVE CodecInv'
  <2>1. /\ UNCHANGED <<keyVars, hop, order>> /\ hop = 0 /\ order = NoOrder
        /\ written' = m /\ route' = "reader" /\ EndsLine(m.text)
    BY <1>3 DEF CodecInv, WrittenInv, ReaderPosts
  <2>2. KeyInv'
    BY <2>1, QuietKeeps DEF CodecInv, keyVars
  <2>3. CASE ReaderPanics(m)
    <3>1. phase' = "panic"
      BY <1>3, <2>3 DEF ReaderPosts
    <3> QED BY <2>1, <2>2, <3>1 DEF CodecInv, WrittenInv, SignedInv, TransitInv, OrderInv,
                                    ControlUnderstood, Underway
  <2>4. CASE ~ReaderPanics(m)
    <3>1. phase' = "sign" /\ tool' = ParseBody(FromReader(m))
      BY <1>3, <2>4 DEF ReaderPosts
    <3>2. IsMessage(m)
      BY CodecAssumption
    <3>3. tool' = FirstTool(written)' /\ WrittenOK'
      BY <2>1, <2>4, <3>1, <3>2 DEF FirstTool, WrittenOK
    <3> QED BY <2>1, <2>2, <3>1, <3>3 DEF CodecInv, WrittenInv, SignedInv, TransitInv, OrderInv,
                                    ControlUnderstood, Underway
  <2> QED BY <2>3, <2>4
<1>4. ASSUME NEW o \in Orders, Create(o) PROVE CodecInv'
  <2>1. order' = o /\ Held(Form) \in Id
    BY <1>4 DEF Create
  <2>2. PICK m : Compose(m) /\ (written' = m => MadeFor(Held(Form))')
    <3>1. o.what \in {"newgroup", "peer", "checkgroups", "sendme"}
      BY CodecAssumption
    <3>2. ASSUME NEW m, Compose(m) PROVE Held(Form)' = Held(Form) /\ written' = m
      BY <3>2, QuietKeeps DEF Compose, CodecInv
    <3>3. CASE o.what = "newgroup"
      <4>1. PICK p \in {"permitted", "not permitted"} :
              Compose(CreateNewsGroupMail(Held(Form), <<"chat">>, o.words, p, o.card))
        BY <1>4, <3>3 DEF Create
      <4> DEFINE m == CreateNewsGroupMail(Held(Form), <<"chat">>, o.words, p, o.card)
      <4> HIDE DEF m
      <4>2. Compose(m) /\ Held(Form)' = Held(Form) /\ written' = m
        BY <3>2, <4>1 DEF m
      <4>3. MadeFor(Held(Form))'
        BY <2>1, <3>3, <4>2 DEF MadeFor, MadeAs, m
      <4> QED BY <4>2, <4>3
    <3>4. CASE o.what = "peer"
      <4> DEFINE m == CreatePeerGroup(Held(Form), o.words[1], o.card)
      <4>1. Compose(m)
        BY <1>4, <3>4 DEF Create
      <4> HIDE DEF m
      <4>2. Held(Form)' = Held(Form) /\ written' = m
        BY <3>2, <4>1
      <4>3. MadeFor(Held(Form))'
        BY <2>1, <3>4, <4>2 DEF MadeFor, MadeAs, m
      <4> QED BY <4>1, <4>3
    <3>5. CASE o.what = "checkgroups"
      <4> DEFINE m == CreateCheckgroups(Device, o.words)
      <4>1. Compose(m)
        BY <1>4, <3>5 DEF Create
      <4> HIDE DEF m
      <4>2. written' = m
        BY <3>2, <4>1
      <4>3. MadeFor(Held(Form))'
        BY <2>1, <3>5, <4>2 DEF MadeFor, MadeAs, m
      <4> QED BY <4>1, <4>3
    <3>6. CASE o.what = "sendme"
      <4> DEFINE m == CreateSendme(Device, o.words, <<>>)
      <4>1. Compose(m)
        BY <1>4, <3>6 DEF Create
      <4> HIDE DEF m
      <4>2. written' = m
        BY <3>2, <4>1
      <4>3. MadeFor(Held(Form))'
        BY <2>1, <3>6, <4>2 DEF MadeFor, MadeAs, m
      <4> QED BY <4>1, <4>3
    <3> QED BY <3>1, <3>3, <3>4, <3>5, <3>6
  <2>3. written' = m
    BY <2>2 DEF Compose
  <2>4. IsMessage(written)'
    <3> QED BY <2>1, <2>2, <2>3, MadeIsMessage
  <2> QED BY <2>1, <2>2, <2>3, <2>4, ComposeKeeps
<1> QED BY <1>1, <1>2, <1>3, <1>4 DEF Author

(* The key a program's message is signed with is the one it has made it in
   the name of. *)
LEMMA SignerIsLast ==
  ASSUME KeyInv, Held(Secret) \in Id
  PROVE  Held(Secret) = installed.id /\ Held(Form) = Held(Secret)
<1>1. keyType \in Secret /\ field[keyType] # Nil
  BY KeyAssumption DEF Held
<1>2. keyType \in Form /\ keyType # "none"
  BY <1>1 DEF Secret, Form
<1> QED BY <1>1, <1>2 DEF Held, KeyInv, HeldIsLast

LEMMA SignKeeps ==
  ASSUME CodecInv, Sign
  PROVE  CodecInv'
<1>1. /\ UNCHANGED <<keyVars, written, route, hop, tool, order>>
      /\ signature' = [key |-> Signer, data |-> writeRaw(tool)] /\ Signer \in Id
      /\ phase = "sign"
  BY DEF Sign
<1>2. hop = 0 /\ tool = FirstTool(written) /\ WrittenOK
  BY <1>1 DEF CodecInv, WrittenInv
<1>3. KeyInv' /\ Held(Form)' = Held(Form) /\ installed' = installed
  BY <1>1, QuietKeeps DEF CodecInv, keyVars
<1>4. /\ Data' = Data /\ FirstTool(written)' = FirstTool(written)
      /\ WrittenOK' = WrittenOK /\ \A owner : MadeFor(owner)' = MadeFor(owner)
  BY <1>1, SameData, SameMade
<1>5. signature'.data = Data /\ signature'.key = Signer
  BY <1>1, <1>2 DEF Data
<1>6. route \in {"api", "reader"} /\ (route = "api" => phase' = "arrives" /\ wire' = Sent(Data))
      /\ (route = "reader" => phase' = "verify")
  BY <1>2 DEF Sign, WrittenOK, Data
<1>7. WrittenInv'
  BY <1>1, <1>2, <1>4, <1>6 DEF WrittenInv
<1>8. SignedInv'
  <2>1. signature'.key = IF route = "reader" THEN Device ELSE installed.id
    BY <1>1, <1>5, SignerIsLast DEF Signer, CodecInv
  <2> QED BY <1>1, <1>3, <1>4, <1>5, <1>6, <2>1 DEF SignedInv
<1>9. TransitInv'
  <2>1. ~Settled'
    BY <1>1, <1>2, <1>6 DEF Settled
  <2>2. /\ phase' \in {"arrives", "verify"} /\ (phase' = "arrives" => route' = "api")
        /\ phase' = "verify" => route' # "api" /\ hop' # 1
    BY <1>1, <1>2, <1>6
  <2> QED BY <1>1, <1>2, <1>4, <1>6, <2>1, <2>2 DEF TransitInv
<1>10. OrderInv'
  <2>1. ASSUME order' # NoOrder PROVE order' \in Orders /\ route' = "api" /\ MadeFor(signature.key)'
    <3>1. order \in Orders /\ route = "api" /\ MadeFor(Held(Form))
      BY <1>1, <2>1 DEF CodecInv, OrderInv
    <3>2. signature'.key = Held(Form)
      BY <1>1, <1>5, <3>1, SignerIsLast DEF Signer, CodecInv
    <3> QED BY <1>1, <3>1, <3>2 DEF MadeFor
  <2> QED BY <1>6, <2>1 DEF OrderInv
<1>11. ControlUnderstood'
  BY <1>6 DEF ControlUnderstood
<1> QED BY <1>3, <1>7, <1>8, <1>9, <1>10, <1>11 DEF CodecInv

LEMMA SignFailsKeeps ==
  ASSUME CodecInv, SignFails
  PROVE  CodecInv'
<1>1. /\ UNCHANGED <<keyVars, hop>> /\ phase = "sign" /\ phase' \in {"panic", "write"}
      /\ order' = NoOrder
  BY DEF SignFails
<1>2. KeyInv' /\ hop' = 0
  BY <1>1, QuietKeeps DEF CodecInv, WrittenInv, keyVars
<1> QED BY <1>1, <1>2 DEF CodecInv, WrittenInv, SignedInv, TransitInv, OrderInv,
                          ControlUnderstood, Underway

(* What every step of a node leaves alone. *)
LEMMA NodeKeeps ==
  ASSUME CodecInv, Underway, UNCHANGED <<keyVars, written, route, signature, order>>,
         hop' \in Nat,
         phase' \in {"arrives", "verify", "control", "stored", "refused", "panic"},
         phase' = "refused" => Fragile(written) /\ hop' <= 1,
         TransitInv', ControlUnderstood'
  PROVE  CodecInv'
<1>1. KeyInv' /\ installed' = installed
  BY QuietKeeps DEF CodecInv, keyVars
<1>2. /\ Data' = Data /\ Fragile(written)' = Fragile(written)
      /\ WrittenOK' = WrittenOK /\ \A owner : MadeFor(owner)' = MadeFor(owner)
  BY SameData, SameMade
<1>3. WrittenInv'
  BY <1>2 DEF CodecInv, WrittenInv
<1>4. SignedInv'
  BY <1>1, <1>2 DEF CodecInv, SignedInv
<1>5. OrderInv'
  <2>1. ASSUME order' # NoOrder PROVE order' \in Orders /\ route' = "api" /\ MadeFor(signature.key)'
    <3>1. order \in Orders /\ route = "api" /\ MadeFor(signature.key)
      BY <2>1 DEF CodecInv, OrderInv, Underway
    <3> QED BY <3>1 DEF MadeFor
  <2>2. phase' # "sign"
    OBVIOUS
  <2> QED BY <2>1, <2>2 DEF OrderInv
<1> QED BY <1>1, <1>3, <1>4, <1>5 DEF CodecInv

LEMMA ParseKeeps ==
  ASSUME CodecInv, Parse
  PROVE  CodecInv'
<1>1. /\ UNCHANGED <<keyVars, written, route, hop, wire, signature, order>>
      /\ phase = "arrives" /\ Underway
      /\ phase' = "panic" \/ (phase' = "verify" /\ tool' = ParseBody(wire))
  BY DEF Parse, Underway
<1>2. WrittenOK /\ hop \in Nat
  BY <1>1 DEF CodecInv, WrittenInv
<1>3. /\ Data' = Data /\ Fragile(written)' = Fragile(written)
      /\ FirstTool(written)' = FirstTool(written)
  BY <1>1, SameData
<1>4. CASE phase' = "panic"
  <2>1. TransitInv' /\ ControlUnderstood'
    BY <1>4 DEF TransitInv, ControlUnderstood, Underway
  <2> QED BY <1>1, <1>2, <1>4, <2>1, NodeKeeps
<1>5. CASE phase' = "verify" /\ tool' = ParseBody(wire)
  <2>1. Settled' = Settled
    BY <1>1, <1>5 DEF Settled
  <2>2. CASE Settled
    <3>1. ~Fragile(written) /\ wire = Data
      BY <1>1, <2>2 DEF CodecInv, TransitInv
    <3>2. tool' = Data
      BY <1>2, <1>5, <3>1, Stands
    <3>3. TransitInv'
      BY <1>1, <1>3, <2>1, <2>2, <3>1, <3>2 DEF TransitInv
    <3>4. ControlUnderstood'
      BY <1>5 DEF ControlUnderstood
    <3> QED BY <1>1, <1>2, <1>5, <3>3, <3>4, NodeKeeps
  <2>3. CASE ~Settled
    <3>1. /\ route = "api" \/ hop = 1
          /\ wire = Sent(IF route = "api" THEN Data ELSE writeRaw(ParseBody(Data)))
      BY <1>1, <2>3 DEF CodecInv, TransitInv
    <3>2. TransitInv'
      <4>1. wire' = Sent(IF route' = "api" THEN Data' ELSE writeRaw(ParseBody(Data')))
        BY <1>1, <1>3, <3>1
      <4>2. tool' = ParseBody(wire') /\ (route' = "api" \/ hop' = 1)
        BY <1>1, <1>5, <3>1
      <4> QED BY <1>5, <2>1, <2>3, <4>1, <4>2 DEF TransitInv
    <3>3. ControlUnderstood'
      BY <1>5 DEF ControlUnderstood
    <3> QED BY <1>1, <1>2, <1>5, <3>2, <3>3, NodeKeeps
  <2> QED BY <2>2, <2>3
<1> QED BY <1>1, <1>4, <1>5

LEMMA VerifyKeeps ==
  ASSUME CodecInv, Verify
  PROVE  CodecInv'
<1> DEFINE stands == writeRaw(tool) = signature.data
<1>1. /\ UNCHANGED <<keyVars, written, route, hop, wire, tool, signature, order>>
      /\ phase = "verify" /\ Underway
      /\ phase' = IF stands THEN "control" ELSE "refused"
  BY DEF Verify, Underway
<1>2. WrittenOK /\ hop \in Nat /\ signature.data = Data
  BY <1>1 DEF CodecInv, WrittenInv, SignedInv
<1>3. /\ Data' = Data /\ Fragile(written)' = Fragile(written)
      /\ FirstTool(written)' = FirstTool(written)
  BY <1>1, SameData
<1> HIDE DEF stands
<1>4. ControlUnderstood'
  BY <1>1 DEF ControlUnderstood
(* A tool that is what was signed is verified, and stays that. *)
<1>5. ASSUME ~Fragile(written), tool = Data, wire = Data,
             Settled \/ route = "api" \/ hop = 1
      PROVE  CodecInv'
  <2>1. stands
    BY <1>2, <1>5, Stands DEF stands
  <2>2. Settled'
    BY <1>1, <1>5, <2>1 DEF Settled
  <2>3. TransitInv'
    BY <1>1, <1>3, <1>5, <2>1, <2>2 DEF TransitInv
  <2> QED BY <1>1, <1>2, <1>4, <2>1, <2>3, NodeKeeps
(* The first comparison with what came over the wire. *)
<1>6. ASSUME ~Settled, route = "api" \/ hop = 1 PROVE CodecInv'
  <2> DEFINE sent == IF route = "api" THEN Data ELSE writeRaw(ParseBody(Data))
  <2>1. wire = Sent(sent) /\ tool = ParseBody(Sent(sent)) /\ hop <= 1
    BY <1>1, <1>2, <1>6 DEF CodecInv, TransitInv, Settled
  <2>2. ~Fragile(written) => sent = Data /\ tool = Data /\ wire = Data
    BY <1>2, <2>1, Stands
  <2>3. Fragile(written) => ~stands
    <3>1. stands <=> Again(sent) = Data
      BY <1>2, <2>1 DEF stands, Again
    <3>2. CASE route = "api"
      BY <1>2, <3>1, <3>2, ProgramBreaks
    <3>3. CASE route # "api"
      <4>1. route = "reader"
        BY <1>2, <3>3 DEF WrittenOK
      <4> QED BY <1>2, <3>1, <4>1, ReaderBreaks
    <3> QED BY <3>2, <3>3
  <2> HIDE DEF sent
  <2>4. CASE Fragile(written)
    <3>1. phase' = "refused"
      BY <1>1, <2>3, <2>4
    <3>2. TransitInv'
      BY <3>1 DEF TransitInv, Underway
    <3> QED BY <1>1, <1>2, <1>4, <2>1, <2>4, <3>1, <3>2, NodeKeeps
  <2> QED BY <1>5, <1>6, <2>2, <2>4
(* The author's node compares what it has signed itself. *)
<1>7. ASSUME ~Settled, ~(route = "api" \/ hop = 1) PROVE CodecInv'
  <2>1. hop = 0 /\ route = "reader" /\ tool = FirstTool(written)
    BY <1>1, <1>2, <1>7 DEF CodecInv, TransitInv, Settled, WrittenOK
  <2>2. stands
    BY <1>2, <2>1 DEF stands, Data
  <2>3. TransitInv'
    BY <1>1, <1>3, <2>1, <2>2 DEF TransitInv, Settled
  <2> QED BY <1>1, <1>2, <1>4, <2>2, <2>3, NodeKeeps
<1>8. Settled => ~Fragile(written) /\ wire = Data /\ tool = Data
  BY <1>1 DEF CodecInv, TransitInv
<1> QED BY <1>5, <1>6, <1>7, <1>8

(* A control message that has been made reads at a node that holds it as
   it was signed as it was written. *)
LEMMA MadeReads ==
  ASSUME WrittenOK, ~Fragile(written), route = "api", order \in Orders,
         NEW owner, MadeFor(owner), NEW session
  PROVE  Understood(CheckControl(Data, owner, session), order, owner, session)
<1>1. Len(written.parts) > 1
  BY MadeMessage DEF MadeFor
<1>2. SignedParts = written.parts
  BY <1>1 DEF SignedParts, FirstParts
<1>3. Data = Body(written.type, written.control, FirstText, 0, written.parts)
  BY <1>2, Stands
<1>4. Data.control = written.control /\ Data.parts = written.parts
  BY <1>3 DEF Body
<1> QED BY <1>4, OrderUnderstood

LEMMA PostKeeps ==
  ASSUME CodecInv, Post
  PROVE  CodecInv'
<1> DEFINE session == IF hop = 0 THEN Device ELSE Path[hop - 1]
<1>1. /\ UNCHANGED <<keyVars, written, route, hop, tool, signature, order>>
      /\ phase = "control" /\ Underway /\ phase' = "stored" /\ wire' = writeRaw(tool)
      /\ called' = CheckControl(tool, signature.key, session)
  BY DEF Post, Underway
<1>2. WrittenOK /\ hop \in Nat
  BY <1>1 DEF CodecInv, WrittenInv
<1>3. /\ Data' = Data /\ Fragile(written)' = Fragile(written)
      /\ FirstTool(written)' = FirstTool(written) /\ Settled' = Settled
  BY <1>1, SameData DEF Settled
<1>4. Settled => ~Fragile(written) /\ tool = Data
  BY <1>1 DEF CodecInv, TransitInv
<1>5. ~Settled => tool = FirstTool(written)
  BY <1>1 DEF CodecInv, TransitInv
<1>6. wire' = Data /\ (Settled => tool' = Data)
  BY <1>1, <1>2, <1>4, <1>5, Stands DEF Data
<1>7. TransitInv'
  BY <1>1, <1>3, <1>4, <1>6 DEF TransitInv
<1>8. ControlUnderstood'
  <2> SUFFICES ASSUME order' # NoOrder PROVE ControlUnderstood'
    BY DEF ControlUnderstood
  <2>1. order \in Orders /\ route = "api" /\ MadeFor(signature.key)
    BY <1>1 DEF CodecInv, OrderInv
  <2>2. Settled
    BY <1>1, <2>1 DEF Settled
  <2>3. called' = CheckControl(Data, signature.key, session)
    BY <1>1, <1>4, <2>2
  <2>4. Understood(called', order, signature.key, session)
    BY <1>2, <1>4, <2>1, <2>2, <2>3, MadeReads
  <2>5. session = Path[IF hop = 0 THEN 0 ELSE hop - 1]
    BY DEF Device
  <2> HIDE DEF session
  <2> QED BY <1>1, <2>4, <2>5 DEF ControlUnderstood
<1> QED BY <1>1, <1>2, <1>7, <1>8, NodeKeeps

LEMMA RelayKeeps ==
  ASSUME CodecInv, Relay
  PROVE  CodecInv'
<1>1. /\ UNCHANGED <<keyVars, written, route, signature, order>>
      /\ phase = "stored" /\ Underway /\ phase' = "arrives" /\ hop' = hop + 1
      /\ tool' = ParseBody(wire) /\ wire' = Sent(writeRaw(ParseBody(wire)))
  BY DEF Relay, Underway
<1>2. WrittenOK /\ hop \in Nat
  BY <1>1 DEF CodecInv, WrittenInv
<1>3. /\ Data' = Data /\ Fragile(written)' = Fragile(written)
      /\ FirstTool(written)' = FirstTool(written)
  BY <1>1, SameData
<1>4. wire = Data
  BY <1>1 DEF CodecInv, TransitInv
<1>5. ControlUnderstood'
  BY <1>1 DEF ControlUnderstood
<1>6. CASE Settled
  <2>1. ~Fragile(written)
    BY <1>1, <1>6 DEF CodecInv, TransitInv
  <2>2. tool' = Data /\ wire' = Data
    BY <1>1, <1>2, <1>4, <2>1, Stands
  <2>3. Settled'
    BY <1>1, <1>2, <1>6 DEF Settled
  <2>4. TransitInv'
    BY <1>3, <2>1, <2>2, <2>3 DEF TransitInv
  <2> QED BY <1>1, <1>2, <1>5, <2>4, NodeKeeps
<1>7. CASE ~Settled
  <2>1. hop = 0 /\ route = "reader"
    BY <1>1, <1>2, <1>7 DEF Settled, WrittenOK
  <2>2. wire' = Sent(writeRaw(ParseBody(Data))) /\ hop' = 1 /\ route' # "api"
    BY <1>1, <1>4, <2>1
  <2>3. ~Settled'
    BY <1>1, <2>2 DEF Settled
  <2>4. TransitInv'
    BY <1>1, <1>3, <2>2, <2>3 DEF TransitInv
  <2> QED BY <1>1, <1>2, <1>5, <2>4, NodeKeeps
<1> QED BY <1>6, <1>7

LEMMA CodecInvNext == CodecInv /\ [Next]_vars => CodecInv'
<1> SUFFICES ASSUME CodecInv, [Next]_vars PROVE CodecInv'
  OBVIOUS
<1>1. CASE Next
  BY <1>1, AuthorKeeps, SignKeeps, SignFailsKeeps, ParseKeeps, VerifyKeeps, PostKeeps, RelayKeeps
     DEF Next
<1>2. CASE UNCHANGED vars
  <2>1. UNCHANGED <<keyVars, written, route, phase, hop, wire, tool, signature, called, order>>
    BY <1>2 DEF vars, message
  <2>2. /\ Data' = Data /\ Fragile(written)' = Fragile(written)
        /\ FirstTool(written)' = FirstTool(written) /\ WrittenOK' = WrittenOK
        /\ \A owner : MadeFor(owner)' = MadeFor(owner)
    BY <2>1, SameData, SameMade
  <2>3. KeyInv' /\ Held(Form)' = Held(Form) /\ installed' = installed
    BY <2>1, QuietKeeps DEF CodecInv, keyVars
  <2>4. WrittenInv' /\ SignedInv'
    BY <2>1, <2>2, <2>3 DEF CodecInv, WrittenInv, SignedInv, Underway
  <2>5. TransitInv' /\ ControlUnderstood'
    BY <2>1, <2>2 DEF CodecInv, TransitInv, ControlUnderstood, Settled, Underway
  <2>6. OrderInv'
    <3>1. MadeFor(Held(Form))' = MadeFor(Held(Form)) /\ MadeFor(signature.key)' = MadeFor(signature.key)
      BY <2>1, <2>3 DEF MadeFor
    <3> QED BY <2>1, <3>1 DEF CodecInv, OrderInv, Underway
  <2> QED BY <2>3, <2>4, <2>5, <2>6 DEF CodecInv
<1> QED BY <1>1, <1>2
-----------------------------------------------------------------------------
(* What has been signed decides everything after it: a node holds either
   what the one before it has sent, unchecked, or, once one of them has
   compared it, exactly what was signed, whatever the path is. *)
THEOREM CodecInvariance == Spec => []CodecInv
BY InitialCodec, CodecInvNext, PTL DEF Spec

(* For every message and every path: Verify refuses only a message that
   writeRaw and ParseBody will not leave as it was signed, at the latest at
   the first node after its author's, and it does refuse every one of them,
   so that what has been stored once on the way is refused by no other. *)
THEOREM OnlyTheFragileRefused == Spec => []RefusedIffFragile
<1>1. CodecInv => RefusedIffFragile
  <2> SUFFICES ASSUME CodecInv PROVE RefusedIffFragile
    OBVIOUS
  <2>1. phase = "refused" => Fragile(written) /\ hop <= 1
    BY DEF CodecInv, SignedInv
  <2>2. ASSUME phase = "stored", hop > 0 PROVE ~Fragile(written)
    <3>1. Underway /\ hop \in Nat
      BY <2>2 DEF Underway, CodecInv, WrittenInv
    <3>2. Settled
      BY <2>2, <3>1 DEF Settled
    <3> QED BY <3>1, <3>2 DEF CodecInv, TransitInv
  <2> QED BY <2>1, <2>2 DEF RefusedIffFragile
<1> QED BY CodecInvariance, <1>1, PTL

(* For every message and every path: what another node stores has the text
   and the number of parts the author wrote, but for a single part and for a
   text cut short, under the signature of the author's key. *)
THEOREM WrittenArrives == Spec => []ArrivesAsWritten
<1>1. CodecInv => ArrivesAsWritten
  <2> SUFFICES ASSUME CodecInv, phase = "stored", hop > 0 PROVE ArrivesAsWritten
    BY DEF ArrivesAsWritten
  <2>1. Underway /\ hop \in Nat /\ WrittenOK
    BY DEF Underway, CodecInv, WrittenInv
  <2>2. Settled
    BY <2>1 DEF Settled
  <2>3. ~Fragile(written) /\ wire = Data
    BY <2>1, <2>2 DEF CodecInv, TransitInv
  <2>4. wire = Body(written.type, written.control, FirstText, 0, SignedParts)
    BY <2>1, <2>3, Stands
  <2>5. wire.pre = Plain0(FirstText) /\ wire.parts = SignedParts
    BY <2>4 DEF Body, Plain0
  <2>6. signature.key = IF route = "reader" THEN Device ELSE installed.id
    BY <2>1 DEF CodecInv, SignedInv
  <2>7. ~CutShort(written) =>
           FirstText = IF route = "reader" THEN Preamble(written) ELSE written.text
    <3>1. IsMessage(written) /\ route \in {"api", "reader"}
      BY <2>1 DEF WrittenOK
    <3> QED BY <3>1, ReaderTool DEF FirstText
  <2>8. Len(written.parts) # 1 => Len(SignedParts) = Len(written.parts)
    <3>1. Len(FirstParts) = Len(written.parts) /\ Len(written.parts) \in Nat
      BY <2>1, FirstFields
    <3>2. Len(<<>>) = 0
      OBVIOUS
    <3>3. SignedParts = IF Len(written.parts) > 1 THEN FirstParts ELSE <<>>
      BY <3>1 DEF SignedParts
    <3> QED BY <3>1, <3>2, <3>3
  <2> QED BY <2>5, <2>6, <2>7, <2>8 DEF ArrivesAsWritten
<1> QED BY CodecInvariance, <1>1, PTL

(* For every order and every path: at every node that stores it, a control
   message that was made for a program creates no group and no peer but those
   it was made for, in the name of the key that has signed it, with the AddPeer
   of a peers group exactly where it comes straight from its author. *)
THEOREM OrdersUnderstood == Spec => []ControlUnderstood
<1>1. CodecInv => ControlUnderstood
  BY DEF CodecInv
<1> QED BY CodecInvariance, <1>1, PTL
=============================================================================
