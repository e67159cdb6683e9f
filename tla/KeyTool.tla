------------------------------ MODULE KeyTool ------------------------------
(***************************************************************************)
(* EasyEdKey: one key in one of four forms.  The tool has a field for each *)
(* form and keeps what the others held when it is given a new key; keyType *)
(* says which of them counts.                                              *)
(*                                                                         *)
(* A key is the identity it belongs to.  A call that fails, in a           *)
(* conversion or for want of a key of the right form, answers Error; one   *)
(* that takes a nil key for a key panics.                                  *)
(***************************************************************************)
EXTENDS Naturals

CONSTANTS
    Id,      \* identities
    Nil,     \* no key; as an input, bytes that hold no ed25519 key
    Error,   \* the answer of a call that fails
    Panic    \* the answer of a call that does not return

ASSUME KeyAssumption ==
    /\ Nil \notin Id /\ Error \notin Id /\ Panic \notin Id
    /\ Nil # Panic /\ Error # Panic

VARIABLES
    keyType,      \* the form that counts
    field,        \* field[t]: edKey, edPub, torPrivKey, torPubKey
    answer,       \* [secret, id]: what the last call that asks was told
    installed,    \* [id, secret]: the key the tool was given last (history)
    spoiled       \* an EC key was parsed over a private key (history)

keyVars == <<keyType, field, answer, installed, spoiled>>

Form == {"private", "public", "torPrivate", "torPublic"}
Secret == {"private", "torPrivate"}  \* forms that hold a private key
Plain == {"private", "public"}       \* forms of crypto/ed25519

NoAnswer == [secret |-> FALSE, id |-> Nil]

KeyTypeOK ==
    /\ keyType \in Form \union {"none"}
    /\ field \in [Form -> Id \union {Nil}]
    /\ answer \in [secret : BOOLEAN, id : Id \union {Nil, Error, Panic}]
    /\ installed \in [id : Id \union {Nil}, secret : BOOLEAN]
    /\ spoiled \in BOOLEAN

KeyInit ==
    /\ keyType = "none"
    /\ field = [t \in Form |-> Nil]
    /\ answer = NoAnswer
    /\ installed = [id |-> Nil, secret |-> FALSE]
    /\ spoiled = FALSE
-----------------------------------------------------------------------------
(* Calls that give the tool a key. *)

Install(t, i) ==
    /\ field' = [field EXCEPT ![t] = i]
    /\ keyType' = t
    /\ answer' = NoAnswer
    /\ installed' = [id |-> i, secret |-> t \in Secret]
    /\ spoiled' = FALSE

Refuse ==
    /\ answer' = [secret |-> FALSE, id |-> Error]
    /\ UNCHANGED <<keyType, field, installed, spoiled>>

(* The conversion of an input fails before any field is written. *)
Convert(t, i) == IF i = Nil THEN Refuse ELSE Install(t, i)

SetPublicKey(i) == Install("public", i)
SetPrivateKey(i) == Install("private", i)
SetTorPublicKey(i) == Install("torPublic", i)
SetTorPrivateKey(i) == Install("torPrivate", i)
GenerateKey(i) == Install("private", i)
SetSshPublicKey(i) == Convert("public", i)
SetSshAuthorizedKey(i) == SetSshPublicKey(i)
ParseCertificate(i) == Convert("public", i)
ParsePublicKey(i) == Convert("public", i)

(* Variant: the form is left as it was. *)
SetTorIdOnly(i) ==
    IF i = Nil THEN Refuse
    ELSE /\ field' = [field EXCEPT !["torPublic"] = i]
         /\ answer' = NoAnswer
         /\ installed' = [id |-> i, secret |-> FALSE]
         /\ spoiled' = FALSE
         /\ UNCHANGED keyType

SetTorId(i) == Convert("torPublic", i)

(* ParseKey reads an EC key, of which the ECDH key is never an ed25519 key:
   the failed assertion has already made edKey nil. *)
ParseKey(isEC) ==
    IF ~isEC THEN Refuse
    ELSE /\ field' = [field EXCEPT !["private"] = Nil]
         /\ answer' = [secret |-> FALSE, id |-> Error]
         /\ spoiled' = (spoiled \/ keyType = "private")
         /\ UNCHANGED <<keyType, installed>>
-----------------------------------------------------------------------------
(* Calls that ask, by the forms they accept. *)

Held(forms) ==
    IF keyType \notin forms THEN Error
    ELSE IF field[keyType] = Nil THEN Panic
    ELSE field[keyType]

Ask(forms) ==
    /\ answer' = [secret |-> forms \subseteq Secret, id |-> Held(forms)]
    /\ UNCHANGED <<keyType, field, installed, spoiled>>

TorId == Ask(Form)
TorPubKey == Ask(Form)
TorVerify == Ask(Form)
PubKey == Ask(Plain)
SshPubKey == Ask(Plain)
SshAuthorizedKey == Ask(Plain)
MarshalPublicKey == Ask(Plain)
TorPrivKey == Ask(Secret)
TorSign == Ask(Secret)
SshPrivateKey == Ask({"private"})
MarshalPrivateKey == Ask({"private"})
CreateCert == Ask({"private"})
-----------------------------------------------------------------------------
Give ==
    \/ \E i \in Id :
        \/ SetPublicKey(i) \/ SetPrivateKey(i)
        \/ SetTorPublicKey(i) \/ SetTorPrivateKey(i) \/ GenerateKey(i)
    \/ \E i \in Id \union {Nil} :
        \/ SetTorId(i) \/ SetSshPublicKey(i) \/ SetSshAuthorizedKey(i)
        \/ ParseCertificate(i) \/ ParsePublicKey(i)
    \/ \E isEC \in BOOLEAN : ParseKey(isEC)

Use ==
    \/ TorId \/ TorPubKey \/ TorVerify
    \/ PubKey \/ SshPubKey \/ SshAuthorizedKey \/ MarshalPublicKey
    \/ TorPrivKey \/ TorSign
    \/ SshPrivateKey \/ MarshalPrivateKey \/ CreateCert

KeyNext == Give \/ Use

KeySpec == KeyInit /\ [][KeyNext]_keyVars
-----------------------------------------------------------------------------
(***************************************************************************)
(* Properties.                                                             *)
(***************************************************************************)

(* However many keys of however many forms a tool has been given, and
   whatever calls have failed on the way, what it answers is about the key
   it was given last; a call that needs the private key is answered only if
   that key was private; and no call panics unless an EC key was parsed
   over a private key. *)
AnswersForLastKey ==
    /\ answer.id \in Id =>
        /\ answer.id = installed.id
        /\ answer.secret => installed.secret
    /\ answer.id = Panic => spoiled
=============================================================================
