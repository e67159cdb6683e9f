-------------------------- MODULE ConnectionProofs --------------------------
(***************************************************************************)
(* Proofs about a peer's connection: about Link, for any number of         *)
(* CmdConnect goroutines, and about Handshake, for any number of nodes.    *)
(*                                                                         *)
(* LinkInv says what each place of Connect has established about the       *)
(* connection its goroutine holds.  HandshakeInv says, for each link, what *)
(* may be on its way given where the two ends are: over an open connection *)
(* the two go through six states together, and over one that has ended     *)
(* each end still holds what it has read while it was open.                *)
(***************************************************************************)
EXTENDS Link, Handshake, FiniteSetTheorems, TLAPS

-----------------------------------------------------------------------------
(* Link: the goroutines that connect to one peer. *)

(* Past the handshake a goroutine holds a connection that was shaken. *)
PlaceInv ==
    \A x \in Goroutine :
        /\ pc[x] = "handshake" => mine[x] \in opened
        /\ pc[x] \in {"client", "conn", "auth"} => mine[x] \in shaken

(* Past the setting of Client, and where there is a Conn, there is a Client; or
   the one who has taken it away is still there to die of it. *)
NilInv ==
    /\ client = NoConn
    /\ conn # NoConn \/ \E x \in Goroutine : pc[x] \in {"conn", "auth"}
    => \E x \in Goroutine : Doomed(x)

(* The worker posts only when there is a Conn. *)
PostInv == pc[worker] = "post" => conn # NoConn

(* A Client has been authenticated, or failed to be, or the goroutine that
   made it is still on its way; only a goroutine of CmdConnect can be on its
   way while the worker is elsewhere. *)
AuthInv ==
    client # NoConn =>
        \/ client \in authed \union failed
        \/ \E x \in Goroutine : mine[x] = client /\ pc[x] \in {"conn", "auth"}

(* Every shaken connection is the last one some goroutine dialled, and no two
   goroutines dialled the same: a goroutine that has one does not dial again,
   because Conn stays set while its turn comes round. *)
CountInv ==
    /\ \A x \in Goroutine : mine[x] \in opened \union {NoConn}
    /\ \A x, y \in Goroutine : mine[x] = mine[y] /\ mine[x] # NoConn => x = y
    /\ \A c \in shaken : \E x \in Goroutine : mine[x] = c
    /\ \A x \in Goroutine : mine[x] \in shaken =>
            /\ pc[x] \notin {"dial", "handshake"}
            /\ pc[x] \in {"idle", "auth", "send", "post"} => conn # NoConn

LinkInv == LinkTypeOK /\ PlaceInv /\ NilInv /\ PostInv /\ OnlyShaken /\ AuthInv
-----------------------------------------------------------------------------
LEMMA InitialLink == LinkInit => LinkInv
  BY DEF LinkInit, LinkInv, LinkTypeOK, PlaceInv, NilInv, PostInv, OnlyShaken, AuthInv, Goroutine

(* Steps that only move one goroutine, towards where nothing is promised. *)
LEMMA MovesKeep ==
  ASSUME LinkInv, NEW x \in Goroutine,
         pc' = [pc EXCEPT ![x] = "idle"] \/ pc' = [pc EXCEPT ![x] = "dial"] \/ Leave(x),
         UNCHANGED <<conn, client, mine, shaken, history>>,
         pc[x] \notin {"conn", "auth"}
  PROVE  LinkInv'
<1> USE DEF LinkInv, history
<1>1. LinkTypeOK'
  BY DEF LinkTypeOK, Leave
<1>2. \A y \in Goroutine \ {x} : pc'[y] = pc[y]
  BY DEF LinkTypeOK, Leave
<1>3. pc'[x] \in {"idle", "dial", "send", "done"}
  BY DEF LinkTypeOK, Leave
<1>4. PlaceInv'
  BY <1>2, <1>3 DEF PlaceInv
<1>5. NilInv' /\ OnlyShaken'
  BY <1>2, <1>3 DEF NilInv, OnlyShaken, Doomed
<1>6. PostInv'
  BY <1>2, <1>3 DEF PostInv, Goroutine
<1>7. AuthInv'
  BY <1>2, <1>3 DEF AuthInv
<1>8. QED
  BY <1>1, <1>4, <1>5, <1>6, <1>7

LEMMA ConnectKeeps ==
  ASSUME LinkInv, NEW x \in Goroutine, Connect(x)
  PROVE  LinkInv'
<1> USE LinkAssumption DEF LinkInv, history
<1>1. CASE Check(x)
  <2>1. pc[x] = "idle"
    BY <1>1 DEF Check, LinkTypeOK
  <2>2. QED
    BY <1>1, <2>1, MovesKeep DEF Check
<1>2. CASE ConnectFails(x)
  <2>1. pc[x] \in {"dial", "handshake"}
    BY <1>2 DEF ConnectFails, LinkTypeOK
  <2>2. QED
    BY <1>2, <2>1, MovesKeep DEF ConnectFails
<1>3. CASE DialPeer(x)
  <2>1. PICK c \in Connection \ opened :
           mine' = [mine EXCEPT ![x] = c] /\ opened' = opened \union {c}
    BY <1>3 DEF DialPeer
  <2>2. /\ pc[x] = "dial" /\ pc' = [pc EXCEPT ![x] = "handshake"]
        /\ UNCHANGED <<conn, client, shaken, authed, silent, failed>>
    BY <1>3 DEF DialPeer
  <2>3. LinkTypeOK'
    BY <2>1, <2>2 DEF LinkTypeOK
  <2>4. PlaceInv'
    BY <2>1, <2>2 DEF LinkTypeOK, PlaceInv
  <2>5. NilInv' /\ PostInv' /\ OnlyShaken'
    BY <2>1, <2>2 DEF LinkTypeOK, NilInv, PostInv, OnlyShaken, Doomed, Goroutine
  <2>6. AuthInv'
    BY <2>1, <2>2 DEF LinkTypeOK, AuthInv
  <2>7. QED
    BY <2>3, <2>4, <2>5, <2>6
<1>4. CASE ClientHandshake(x)
  <2>1. /\ pc[x] = "handshake" /\ pc' = [pc EXCEPT ![x] = "client"]
        /\ shaken' = shaken \union {mine[x]} /\ mine[x] \in opened
        /\ UNCHANGED <<conn, client, mine, opened, authed, silent, failed>>
    BY <1>4 DEF ClientHandshake, PlaceInv
  <2>2. LinkTypeOK' /\ PlaceInv'
    BY <2>1 DEF LinkTypeOK, PlaceInv
  <2>3. NilInv' /\ PostInv' /\ OnlyShaken' /\ AuthInv'
    BY <2>1 DEF LinkTypeOK, NilInv, PostInv, OnlyShaken, AuthInv, Doomed, Goroutine
  <2>4. QED
    BY <2>2, <2>3
<1>5. CASE SetClient(x)
  <2>1. /\ pc[x] = "client" /\ pc' = [pc EXCEPT ![x] = "conn"] /\ client' = mine[x]
        /\ UNCHANGED <<conn, mine, shaken, opened, authed, silent, failed>>
    BY <1>5 DEF SetClient
  <2>2. mine[x] \in shaken /\ mine[x] \in Connection /\ mine[x] # NoConn
    BY <2>1 DEF PlaceInv, LinkTypeOK
  <2>3. LinkTypeOK' /\ PlaceInv'
    BY <2>1, <2>2 DEF LinkTypeOK, PlaceInv
  <2>4. NilInv' /\ PostInv' /\ OnlyShaken'
    BY <2>1, <2>2 DEF LinkTypeOK, NilInv, PostInv, OnlyShaken, Doomed, Goroutine
  <2>5. AuthInv'
    <3>1. mine'[x] = client' /\ pc'[x] = "conn"
      BY <2>1 DEF LinkTypeOK
    <3>2. QED
      BY <3>1 DEF AuthInv
  <2>6. QED
    BY <2>3, <2>4, <2>5
<1>6. CASE NoGreeting(x)
  <2>1. /\ pc[x] = "client" /\ pc' = [pc EXCEPT ![x] = "conn"] /\ client' = NoConn
        /\ silent' = silent \union {mine[x]}
        /\ UNCHANGED <<conn, mine, shaken, opened, authed, failed>>
    BY <1>6 DEF NoGreeting
  <2>2. LinkTypeOK' /\ PlaceInv'
    BY <2>1 DEF LinkTypeOK, PlaceInv
  <2>3. Doomed(x)'
    BY <2>1 DEF LinkTypeOK, Doomed
  <2>4. NilInv' /\ PostInv' /\ OnlyShaken' /\ AuthInv'
    BY <2>1, <2>3 DEF LinkTypeOK, NilInv, PostInv, OnlyShaken, AuthInv, Goroutine
  <2>5. QED
    BY <2>2, <2>4
<1>7. CASE SetConn(x)
  <2>1. /\ pc[x] = "conn" /\ pc' = [pc EXCEPT ![x] = "auth"] /\ conn' = mine[x]
        /\ UNCHANGED <<client, mine, shaken, opened, authed, silent, failed>>
    BY <1>7 DEF SetConn
  <2>2. mine[x] \in shaken /\ mine[x] \in Connection /\ mine[x] # NoConn
    BY <2>1 DEF PlaceInv, LinkTypeOK
  <2>3. LinkTypeOK' /\ PlaceInv'
    BY <2>1, <2>2 DEF LinkTypeOK, PlaceInv
  <2>4. NilInv' /\ PostInv' /\ OnlyShaken'
    BY <2>1, <2>2 DEF LinkTypeOK, NilInv, PostInv, OnlyShaken, Doomed, Goroutine
  <2>5. AuthInv'
    BY <2>1 DEF LinkTypeOK, AuthInv
  <2>6. QED
    BY <2>3, <2>4, <2>5
<1>8. CASE Authenticate(x)
  <2>1. /\ pc[x] = "auth" /\ Leave(x)
        /\ \/ authed' = authed \union {mine[x]} /\ failed' = failed
           \/ failed' = failed \union {mine[x]} /\ authed' = authed
        /\ mine[x] \notin silent /\ UNCHANGED <<conn, client, mine, shaken, opened, silent>>
    BY <1>8 DEF Authenticate
  <2>2. mine[x] \in opened /\ pc'[x] \in {"send", "done"}
        /\ \A y \in Goroutine \ {x} : pc'[y] = pc[y]
    BY <2>1 DEF PlaceInv, LinkTypeOK, Leave
  <2>3. LinkTypeOK'
    BY <2>1, <2>2 DEF LinkTypeOK, Leave
  <2>4. PlaceInv'
    BY <2>1, <2>2 DEF PlaceInv
  <2>5. NilInv' /\ PostInv' /\ OnlyShaken'
    BY <2>1, <2>2 DEF NilInv, PostInv, OnlyShaken, Doomed, Goroutine
  <2>6. AuthInv'
    BY <2>1, <2>2 DEF AuthInv
  <2>7. QED
    BY <2>3, <2>4, <2>5, <2>6
<1>9. QED
  BY <1>1, <1>2, <1>3, <1>4, <1>5, <1>6, <1>7, <1>8 DEF Connect

LEMMA SendKeeps ==
  ASSUME LinkInv, SendMessages
  PROVE  LinkInv'
<1> worker \in Goroutine
  BY DEF Goroutine
<1>1. CASE NothingToSend \/ Post
  <2>1. pc[worker] \in {"send", "post"}
        /\ pc' = [pc EXCEPT ![worker] = "idle"]
        /\ UNCHANGED <<conn, client, mine, shaken, history>>
    BY <1>1 DEF NothingToSend, Post, LinkInv, LinkTypeOK
  <2>2. QED
    BY <2>1, MovesKeep
<1>2. CASE FetchArticle
  BY <1>2 DEF FetchArticle, LinkInv, LinkTypeOK, PlaceInv, NilInv, PostInv, OnlyShaken,
              AuthInv, Doomed, history
<1>3. QED
  BY <1>1, <1>2 DEF SendMessages

LEMMA InductiveLink == LinkInv /\ [LinkNext]_linkVars => LinkInv'
<1> SUFFICES ASSUME LinkInv, [LinkNext]_linkVars
             PROVE  LinkInv'
  OBVIOUS
<1>1. CASE UNCHANGED linkVars
  BY <1>1 DEF linkVars, history, LinkInv, LinkTypeOK, PlaceInv, NilInv, PostInv, OnlyShaken, AuthInv,
              Doomed
<1>2. CASE ProcessDies
  BY <1>2 DEF ProcessDies, history, LinkInv, LinkTypeOK, PlaceInv, NilInv, PostInv, OnlyShaken, AuthInv,
              Goroutine
<1>3. QED
  BY <1>1, <1>2, ConnectKeeps, SendKeeps DEF LinkNext

(* What the other theorems rest on. *)
THEOREM LinkInvariance == LinkSpec => []LinkInv
<1>1. QED
  BY InitialLink, InductiveLink, PTL DEF LinkSpec

(* Every reachable state of a link is well typed. *)
THEOREM TypeCorrectLink == LinkSpec => []LinkTypeOK
<1>1. LinkInv => LinkTypeOK
  BY DEF LinkInv
<1>2. QED
  BY <1>1, LinkInvariance, PTL

(* However many goroutines call Connect, the worker that has seen a Conn finds
   a Client, or the process is lost by a goroutine that got no greeting. *)
THEOREM ClientFound == LinkSpec => []PostFindsClient
<1>1. LinkInv => PostFindsClient
  BY DEF LinkInv, PostInv, NilInv, PostFindsClient, Doomed, Goroutine
<1>2. QED
  BY <1>1, LinkInvariance, PTL

(* Conn and Client are always connections whose handshake succeeded in this
   life of the process. *)
THEOREM ShakenOnly == LinkSpec => []OnlyShaken
<1>1. LinkInv => OnlyShaken
  BY DEF LinkInv
<1>2. QED
  BY <1>1, LinkInvariance, PTL

(* A post with a Client is refused only after a failed Authenticate, or while a CmdConnect
   goroutine has published a Client it has not authenticated. *)
THEOREM RefusalsExplained == LinkSpec => []RefusedOnlyInRace
<1>1. LinkInv => RefusedOnlyInRace
  BY DEF LinkInv, AuthInv, RefusedOnlyInRace, Goroutine
<1>2. QED
  BY <1>1, LinkInvariance, PTL
-----------------------------------------------------------------------------
(* How many connections there may be. *)

LEMMA CountOfMoves ==
  ASSUME LinkInv, CountInv, NEW x \in Goroutine,
         \/ pc[x] \in {"dial", "handshake"} /\ Leave(x)
         \/ pc[x] = "idle" /\ conn # NoConn /\ Leave(x)
         \/ pc[x] = "idle" /\ conn = NoConn /\ pc' = [pc EXCEPT ![x] = "dial"]
         \/ pc[x] = "auth" /\ Leave(x)
         \/ pc[x] \in {"send", "post"} /\ pc' = [pc EXCEPT ![x] = "idle"]
         \/ pc[x] = "send" /\ pc' = [pc EXCEPT ![x] = "post"],
         UNCHANGED <<conn, mine, opened, shaken>>
  PROVE  CountInv'
<1>1. \A y \in Goroutine \ {x} : pc'[y] = pc[y]
  BY DEF LinkInv, LinkTypeOK, Leave
<1>2. /\ pc'[x] \in {"idle", "dial", "send", "post", "done"}
      /\ mine[x] \in shaken => pc'[x] # "dial" /\ conn # NoConn
  BY DEF LinkInv, LinkTypeOK, Leave, CountInv
<1>3. QED
  BY <1>1, <1>2 DEF CountInv

LEMMA CountOfConnect ==
  ASSUME LinkInv, CountInv, NEW x \in Goroutine, Connect(x)
  PROVE  CountInv'
<1> USE LinkAssumption DEF history
<1>1. pc \in [Goroutine -> {"idle", "dial", "handshake", "client", "conn",
                           "auth", "send", "post", "done"}]
      /\ mine \in [Goroutine -> Connection \union {NoConn}]
      /\ opened \subseteq Connection /\ shaken \subseteq opened
  BY DEF LinkInv, LinkTypeOK
<1>2. CASE Check(x) \/ ConnectFails(x) \/ Authenticate(x)
  BY <1>2, CountOfMoves DEF Check, ConnectFails, Authenticate
<1>3. CASE DialPeer(x)
  <2>1. PICK c \in Connection \ opened :
           mine' = [mine EXCEPT ![x] = c] /\ opened' = opened \union {c}
    BY <1>3 DEF DialPeer
  <2>2. /\ pc[x] = "dial" /\ pc' = [pc EXCEPT ![x] = "handshake"]
        /\ shaken' = shaken /\ conn' = conn
    BY <1>3 DEF DialPeer
  <2>3. /\ mine'[x] = c /\ \A y \in Goroutine \ {x} : mine'[y] = mine[y] /\ mine[y] # c
        /\ c \notin shaken /\ mine[x] \notin shaken
    BY <1>1, <2>1, <2>2 DEF CountInv
  <2>4. pc'[x] = "handshake" /\ \A y \in Goroutine \ {x} : pc'[y] = pc[y]
    BY <1>1, <2>2
  <2>5. QED
    BY <2>1, <2>2, <2>3, <2>4 DEF CountInv
<1>4. CASE ClientHandshake(x)
  <2>1. /\ pc[x] = "handshake" /\ pc' = [pc EXCEPT ![x] = "client"]
        /\ shaken' = shaken \union {mine[x]} /\ mine[x] \in opened
        /\ UNCHANGED <<conn, mine, opened>>
    BY <1>4 DEF ClientHandshake, LinkInv, PlaceInv
  <2>2. mine[x] # NoConn /\ \A y \in Goroutine \ {x} : mine[y] # mine[x] /\ pc'[y] = pc[y]
    BY <1>1, <2>1 DEF CountInv
  <2>3. pc'[x] = "client"
    BY <1>1, <2>1
  <2>4. QED
    BY <2>1, <2>2, <2>3 DEF CountInv
<1>5. CASE SetClient(x)
  <2>1. /\ pc' = [pc EXCEPT ![x] = "conn"] /\ UNCHANGED <<conn, mine, shaken, opened>>
    BY <1>5 DEF SetClient
  <2>2. QED
    BY <1>1, <2>1 DEF CountInv
<1>6. CASE NoGreeting(x)
  <2>1. /\ pc' = [pc EXCEPT ![x] = "conn"] /\ UNCHANGED <<conn, mine, shaken, opened>>
    BY <1>6 DEF NoGreeting
  <2>2. QED
    BY <1>1, <2>1 DEF CountInv
<1>7. CASE SetConn(x)
  <2>1. /\ pc[x] = "conn" /\ pc' = [pc EXCEPT ![x] = "auth"] /\ conn' = mine[x]
        /\ UNCHANGED <<mine, shaken, opened>>
    BY <1>7 DEF SetConn
  <2>2. conn' # NoConn
    BY <1>1, <2>1 DEF LinkInv, PlaceInv
  <2>3. QED
    BY <1>1, <2>1, <2>2 DEF CountInv
<1>8. QED
  BY <1>2, <1>3, <1>4, <1>5, <1>6, <1>7 DEF Connect

LEMMA InductiveCount == LinkInv /\ CountInv /\ [LinkNext]_linkVars => CountInv'
<1> SUFFICES ASSUME LinkInv, CountInv, [LinkNext]_linkVars
             PROVE  CountInv'
  OBVIOUS
<1>1. CASE UNCHANGED linkVars
  BY <1>1 DEF linkVars, history, CountInv
<1>2. CASE SendMessages
  <2>1. worker \in Goroutine
    BY DEF Goroutine
  <2>2. QED
    BY <1>2, <2>1, CountOfMoves
    DEF SendMessages, NothingToSend, FetchArticle, Post, history
<1>3. CASE ProcessDies
  BY <1>3 DEF ProcessDies, history, CountInv
<1>4. QED
  BY <1>1, <1>2, <1>3, CountOfConnect DEF LinkNext

(* Distinct shaken connections were last dialled by distinct goroutines. *)
LEMMA CountedByDialler ==
  ASSUME CountInv
  PROVE  OneConnectionEach
<1> DEFINE dialler == [c \in shaken |-> CHOOSE x \in Goroutine : mine[x] = c]
<1>1. \A c \in shaken : dialler[c] \in Goroutine /\ mine[dialler[c]] = c
  BY DEF CountInv
<1>2. dialler \in [shaken -> Goroutine]
  BY <1>1
<1> HIDE DEF dialler
<1>3. dialler \in Injection(shaken, Goroutine)
  BY <1>1, <1>2 DEF Injection, IsInjective
<1>4. IsFiniteSet(Goroutine)
  BY LinkAssumption, FS_AddElement DEF Goroutine
<1>5. QED
  BY <1>3, <1>4, FS_Injection DEF OneConnectionEach

(* However often Connect is called and by however many goroutines, each has
   at most one connection through the handshake. *)
THEOREM ConnectionEach == LinkSpec => []OneConnectionEach
<1>1. LinkInit => CountInv
  BY LinkAssumption DEF LinkInit, CountInv
<1>2. LinkSpec => []CountInv
  BY <1>1, InductiveCount, LinkInvariance, PTL DEF LinkSpec
<1>3. QED
  BY <1>2, CountedByDialler, PTL
-----------------------------------------------------------------------------
(* Handshake: the two ends of a connection. *)

Types ==
    /\ table \in [Node -> SUBSET Node]
    /\ dialer \in [Node -> {"none", "set", "failed"}]
    /\ onion \in [Node -> {"none", "up", "failed"}]
    /\ line \in [LinkOf -> {"none", "open", "closed", "broken"}]
    /\ cpc \in [LinkOf -> {"none", "response", "ok", "done"}]
    /\ spc \in [LinkOf -> {"none", "request", "auth", "signature", "session"}]
    /\ up = [l \in LinkOf |-> up[l]] /\ down = [l \in LinkOf |-> down[l]]
    /\ request = [l \in LinkOf |-> request[l]] /\ sent = [l \in LinkOf |-> sent[l]]
    /\ breaks \in 0 .. MaxBreaks /\ deaths \in 0 .. MaxDeaths
    /\ torFails \in 0 .. MaxTorFails

(* The four messages of the link l. *)
First(l) == Request(Client(l))
Answer(l) == Response(Server(l), First(l))
Proof(l) == Sign(Client(l), Answer(l))

(* The six states of an open connection. *)
At(l, c, s, u, d) == cpc[l] = c /\ spc[l] = s /\ up[l] = u /\ down[l] = d
Together(l) ==
    \/ At(l, "response", "request", <<First(l)>>, <<>>)
    \/ At(l, "response", "auth", <<>>, <<>>)
    \/ At(l, "response", "signature", <<>>, <<Answer(l)>>)
    \/ At(l, "ok", "signature", <<Proof(l)>>, <<>>)
    \/ At(l, "ok", "session", <<>>, <<OK>>)
    \/ At(l, "done", "session", <<>>, <<>>)

(* What is on its way, at any time. *)
Ways(l) ==
    /\ up[l] \in {<<>>, <<First(l)>>, <<Proof(l)>>}
    /\ down[l] \in {<<>>, <<Answer(l)>>, <<OK>>}
    /\ spc[l] = "request" => up[l] # <<Proof(l)>>
    /\ cpc[l] = "response" => down[l] # <<OK>>

(* What the server knows. *)
Known(l) ==
    /\ spc[l] \in {"auth", "signature", "session"} => request[l] = First(l)
    /\ spc[l] \in {"signature", "session"} => sent[l] = Answer(l)
    /\ spc[l] \in {"signature", "session"} => Client(l) \in table[Server(l)]

EndsInv(l) == Ways(l) /\ Known(l) /\ (line[l] = "open" => Together(l))

HandshakeInv == Types /\ \A l \in LinkOf : EndsInv(l)
-----------------------------------------------------------------------------
(* The messages of a link are different from each other, and each is what
   the other end verifies. *)
LEMMA Messages ==
  ASSUME NEW l \in LinkOf
  PROVE  /\ First(l).hello.id = First(l).hello.key
         /\ First(l).hello.key = Client(l)
         /\ Verify(First(l).hello.key, First(l).hello, First(l).sig)
         /\ Verify(Answer(l).hello.key, <<Answer(l).hello, First(l)>>, Answer(l).sig)
         /\ Verify(First(l).hello.key, Answer(l), Proof(l))
BY DEF First, Answer, Proof, Request, Response, Hello, Sign, Verify

(* Sequences of one line. *)
LEMMA OneLine ==
  ASSUME NEW m
  PROVE  /\ Head(<<m>>) = m /\ Tail(<<m>>) = <<>> /\ Append(<<>>, m) = <<m>>
         /\ <<m>> # <<>> /\ Len(<<m>>) = 1 /\ Len(<<>>) = 0
OBVIOUS

LEMMA OtherLine ==
  ASSUME NEW m, NEW n, m # n
  PROVE  <<m>> # <<n>>
OBVIOUS

LEMMA AtMostOne ==
  ASSUME NEW n, n = 0 \/ n = 1
  PROVE  n <= 1
OBVIOUS

LEMMA Different ==
  ASSUME NEW l \in LinkOf
  PROVE  <<Proof(l)>> # <<First(l)>> /\ <<Answer(l)>> # <<OK>>
<1>1. DOMAIN Proof(l) = {"by", "of"} /\ DOMAIN First(l) = {"hello", "sig"}
  BY DEF Proof, Sign, First, Request
<1>2. DOMAIN Answer(l) = {"hello", "sig"} /\ DOMAIN OK = {"ok"}
  BY DEF Answer, Response, OK
<1>3. Proof(l) # First(l) /\ Answer(l) # OK
  BY <1>1, <1>2
<1>4. QED
  BY <1>3, OtherLine

(* A step on one link that leaves the other links as they are. *)
LEMMA OneLink ==
  ASSUME HandshakeInv, Types', NEW l \in LinkOf, EndsInv(l)', UNCHANGED table,
         \A k \in LinkOf \ {l} :
            /\ line'[k] = line[k] /\ up'[k] = up[k] /\ down'[k] = down[k]
            /\ cpc'[k] = cpc[k] /\ spc'[k] = spc[k]
            /\ request'[k] = request[k] /\ sent'[k] = sent[k]
  PROVE  HandshakeInv'
<1>1. ASSUME NEW k \in LinkOf, k # l
      PROVE  EndsInv(k)'
  BY <1>1 DEF HandshakeInv, EndsInv, Ways, Known, Together, At
<1>2. QED
  BY <1>1 DEF HandshakeInv

LEMMA InitialHandshake == Init => HandshakeInv
  BY HandshakeAssumption
  DEF Init, HandshakeInv, Types, EndsInv, Ways, Known, Together, At
-----------------------------------------------------------------------------
LEMMA NodeKeeps ==
  ASSUME HandshakeInv, NEW n \in Node, Dialer(n) \/ Listen(n) \/ Die(n)
  PROVE  HandshakeInv'
<1> USE HandshakeAssumption
<1>1. CASE Dialer(n) \/ Listen(n)
  <2>1. Types'
    BY <1>1 DEF HandshakeInv, Types, Dialer, Listen, wires, ends
  <2>2. UNCHANGED <<table, wires, ends>>
    BY <1>1 DEF Dialer, Listen
  <2>3. \A l \in LinkOf : EndsInv(l)'
    BY <2>2 DEF HandshakeInv, EndsInv, Ways, Known, Together, At, wires, ends
  <2>4. QED
    BY <2>1, <2>3 DEF HandshakeInv
<1>2. CASE Die(n)
  <2>1. Types'
    BY <1>2 DEF HandshakeInv, Types, Die
  <2>2. ASSUME NEW l \in LinkOf
        PROVE  EndsInv(l)'
    <3>1. Ways(l)' /\ Known(l)'
      BY <1>2 DEF HandshakeInv, Types, EndsInv, Ways, Known, Die
    <3>2. CASE n \in {Client(l), Server(l)}
      <4>1. line'[l] # "open"
        BY <1>2, <3>2 DEF Die
      <4>2. QED
        BY <3>1, <4>1 DEF EndsInv
    <3>3. CASE n \notin {Client(l), Server(l)}
      <4>1. /\ line'[l] = line[l] /\ up'[l] = up[l] /\ down'[l] = down[l]
            /\ cpc'[l] = cpc[l] /\ spc'[l] = spc[l]
        BY <1>2, <3>3 DEF Die
      <4>2. QED
        BY <3>1, <4>1 DEF HandshakeInv, EndsInv, Together, At
    <3>4. QED
      BY <3>2, <3>3, AtMostOne
  <2>3. QED
    BY <2>1, <2>2 DEF HandshakeInv
<1>3. QED
  BY <1>1, <1>2

LEMMA PeersKeep ==
  ASSUME HandshakeInv, NEW n \in Node, NEW m \in Node, AddPeer(n, m)
  PROVE  HandshakeInv'
<1>1. Types'
  BY DEF HandshakeInv, Types, AddPeer, tor, wires, ends, bounds
<1>2. \A k \in Node : table[k] \subseteq table'[k]
  BY DEF HandshakeInv, Types, AddPeer
<1>3. ASSUME NEW l \in LinkOf
      PROVE  EndsInv(l)'
  <2>1. Server(l) \in Node
    BY DEF LinkOf, Server
  <2>2. QED
    BY <1>2, <2>1 DEF HandshakeInv, EndsInv, Ways, Known, Together, At, AddPeer, wires, ends
<1>4. QED
  BY <1>1, <1>3 DEF HandshakeInv
-----------------------------------------------------------------------------
LEMMA BreakKeeps ==
  ASSUME HandshakeInv, NEW l \in LinkOf, Break(l)
  PROVE  HandshakeInv'
<1> USE DEF HandshakeInv, Types
<1>1. /\ up' = up \/ up' = [up EXCEPT ![l] = <<>>]
      /\ down' = down \/ down' = [down EXCEPT ![l] = <<>>]
  BY DEF Break
<1>2. Types'
  BY <1>1, HandshakeAssumption DEF Break, tor, ends
<1>3. EndsInv(l)'
  BY <1>1 DEF Break, ends, EndsInv, Ways, Known
<1>4. QED
  BY <1>1, <1>2, <1>3, OneLink DEF Break, ends

LEMMA DialKeeps ==
  ASSUME HandshakeInv, NEW l \in LinkOf, Dial(l)
  PROVE  HandshakeInv'
<1> USE DEF HandshakeInv, Types
<1>1. Types'
  BY DEF Dial, tor, bounds
<1>2. EndsInv(l)'
  BY Different DEF Dial, EndsInv, Ways, Known, Together, At, First
<1>3. QED
  BY <1>1, <1>2, OneLink DEF Dial

LEMMA ClientKeeps ==
  ASSUME HandshakeInv, NEW l \in LinkOf, ClientStep(l)
  PROVE  HandshakeInv'
<1>0. Types /\ EndsInv(l)
  BY DEF HandshakeInv
<1>1. CASE ClientResponse(l)
  <2>0. cpc[l] = "response" /\ down[l] = <<Answer(l)>> /\ down' = Received(down, l)
    BY <1>0, <1>1 DEF ClientResponse, EndsInv, Ways
  <2>1. /\ cpc[l] = "response" /\ down[l] = <<Answer(l)>>
        /\ down' = [down EXCEPT ![l] = <<>>]
    BY <2>0, OneLine DEF Received
  <2>2. /\ up' = Written(up, l, Proof(l))
        /\ cpc' = [cpc EXCEPT ![l] = "ok"]
    BY <1>1, <2>1, Messages, OneLine DEF ClientResponse, First, Proof
  <2>3. UNCHANGED <<table, tor, line, spc, request, sent, bounds>>
    BY <1>1 DEF ClientResponse
  <2>4. line[l] = "open" => up[l] = <<>> /\ spc[l] = "signature"
    BY <1>0, <2>1 DEF EndsInv, Together, At
  <2>5. up' = [up EXCEPT ![l] = IF line[l] = "open" THEN <<Proof(l)>> ELSE up[l]]
    BY <1>0, <2>2, <2>4, OneLine DEF Types, Written
  <2>6. Types'
    BY <1>0, <2>1, <2>2, <2>3, <2>5 DEF Types, tor, bounds
  <2>7. EndsInv(l)'
    BY <1>0, <2>1, <2>2, <2>3, <2>4, <2>5 DEF Types, EndsInv, Ways, Known, Together, At
  <2>8. QED
    BY <2>1, <2>2, <2>3, <2>5, <2>6, <2>7, OneLink
<1>2. CASE ClientOK(l)
  <2>0. /\ cpc[l] = "ok" /\ down[l] \in {<<Answer(l)>>, <<OK>>}
        /\ down' = Received(down, l)
    BY <1>0, <1>2 DEF ClientOK, EndsInv, Ways
  <2>1. /\ cpc[l] = "ok" /\ down[l] \in {<<Answer(l)>>, <<OK>>}
        /\ down' = [down EXCEPT ![l] = <<>>]
    BY <2>0, OneLine DEF Received
  <2>2. cpc' = [cpc EXCEPT ![l] = IF Head(down[l]) = OK THEN "done" ELSE "none"]
    BY <1>2 DEF ClientOK
  <2>3. UNCHANGED <<table, tor, line, up, spc, request, sent, bounds>>
    BY <1>2 DEF ClientOK
  <2>4. line[l] = "open" => At(l, "ok", "session", <<>>, <<OK>>)
    BY <1>0, <2>1 DEF EndsInv, Together, At
  <2>5. cpc'[l] \in {"done", "none"} /\ (line[l] = "open" => cpc'[l] = "done")
    BY <1>0, <2>1, <2>2, <2>4 DEF Types, At
  <2>6. Types'
    BY <1>0, <2>1, <2>2, <2>3 DEF Types, tor, bounds
  <2>7. EndsInv(l)'
    BY <1>0, <2>1, <2>3, <2>4, <2>5 DEF Types, EndsInv, Ways, Known, Together, At
  <2>8. QED
    BY <2>1, <2>2, <2>3, <2>6, <2>7, OneLink
<1>3. CASE ClientEOF(l)
  <2>1. line[l] # "open" /\ cpc' = [cpc EXCEPT ![l] = "none"]
    BY <1>3 DEF ClientEOF, ClientFails, Ended
  <2>2. UNCHANGED <<table, tor, line, up, down, spc, request, sent, bounds>>
    BY <1>3 DEF ClientEOF, ClientFails
  <2>3. Types'
    BY <1>0, <2>1, <2>2 DEF Types, tor, bounds
  <2>4. EndsInv(l)'
    BY <1>0, <2>1, <2>2 DEF Types, EndsInv, Ways, Known
  <2>5. QED
    BY <2>1, <2>2, <2>3, <2>4, OneLink
<1>4. QED
  BY <1>1, <1>2, <1>3 DEF ClientStep
-----------------------------------------------------------------------------
(* A server that closes: nothing more is promised of the link. *)
LEMMA CloseKeeps ==
  ASSUME HandshakeInv, NEW l \in LinkOf, Close(l),
         up' = [up EXCEPT ![l] = <<>>] \/ up' = up,
         UNCHANGED <<table, tor, down, cpc, request, sent, bounds>>
  PROVE  HandshakeInv'
<1> USE DEF HandshakeInv, Types, Close
<1>1. Types'
  BY DEF tor, bounds
<1>2. spc'[l] = "none" /\ line'[l] # "open"
  OBVIOUS
<1>3. EndsInv(l)'
  BY <1>2 DEF EndsInv, Ways, Known
<1>4. QED
  BY <1>1, <1>3, OneLink

LEMMA ServerKeeps ==
  ASSUME HandshakeInv, NEW l \in LinkOf, ServerStep(l)
  PROVE  HandshakeInv'
<1>0. Types /\ EndsInv(l)
  BY DEF HandshakeInv
<1>1. CASE ServerRequest(l)
  <2>0. spc[l] = "request" /\ up[l] = <<First(l)>> /\ up' = Received(up, l)
    BY <1>0, <1>1 DEF ServerRequest, EndsInv, Ways
  <2>1. /\ spc[l] = "request" /\ up[l] = <<First(l)>>
        /\ up' = [up EXCEPT ![l] = <<>>]
    BY <2>0, OneLine DEF Received
  <2>2. /\ request' = [request EXCEPT ![l] = First(l)]
        /\ spc' = [spc EXCEPT ![l] = "auth"]
        /\ UNCHANGED <<table, tor, line, down, cpc, sent, bounds>>
    BY <1>1, <2>1, Messages, OneLine DEF ServerRequest
  <2>3. Types'
    BY <1>0, <2>1, <2>2 DEF Types, tor, bounds
  <2>4. EndsInv(l)'
    BY <1>0, <2>1, <2>2 DEF Types, EndsInv, Ways, Known, Together, At
  <2>5. QED
    BY <2>1, <2>2, <2>3, <2>4, OneLink
<1>2. CASE Auth(l)
  <2>1. spc[l] = "auth" /\ request[l] = First(l)
    BY <1>0, <1>2 DEF Auth, EndsInv, Known
  <2>2. CASE /\ First(l).hello.key \in table[Server(l)]
             /\ Verify(First(l).hello.key, First(l).hello, First(l).sig)
    <3>1. /\ down' = Written(down, l, Answer(l))
          /\ sent' = [sent EXCEPT ![l] = Answer(l)]
          /\ spc' = [spc EXCEPT ![l] = "signature"]
          /\ UNCHANGED <<table, tor, line, up, cpc, request, bounds>>
      BY <1>2, <2>1, <2>2 DEF Auth, Answer
    <3>2. line[l] = "open" => At(l, "response", "auth", <<>>, <<>>)
      BY <1>0, <2>1 DEF EndsInv, Together, At
    <3>3. down' = [down EXCEPT ![l] = IF line[l] = "open" THEN <<Answer(l)>> ELSE down[l]]
      BY <1>0, <3>1, <3>2, OneLine DEF Types, Written, At
    <3>4. Types'
      BY <1>0, <3>1, <3>3 DEF Types, tor, bounds
    <3>5. Client(l) \in table[Server(l)]
      BY <2>2, Messages
    <3>6. Ways(l)' /\ Known(l)'
      BY <1>0, <2>1, <3>1, <3>2, <3>3, <3>5, Different, OneLine DEF Types, EndsInv, Ways, Known, At
    <3>7. EndsInv(l)'
      BY <1>0, <3>1, <3>2, <3>3, <3>6 DEF Types, EndsInv, Together, At
    <3>8. QED
      BY <3>1, <3>3, <3>4, <3>7, OneLink
  <2>3. CASE ~(/\ First(l).hello.key \in table[Server(l)]
               /\ Verify(First(l).hello.key, First(l).hello, First(l).sig))
    BY <1>2, <2>1, <2>3, CloseKeeps DEF Auth
  <2>4. QED
    BY <2>2, <2>3
<1>3. CASE ServerSignature(l)
  <2>1. /\ spc[l] = "signature" /\ request[l] = First(l) /\ sent[l] = Answer(l)
        /\ Client(l) \in table[Server(l)]
    BY <1>0, <1>3 DEF ServerSignature, EndsInv, Known
  <2>2. up' = [up EXCEPT ![l] = <<>>]
    <3>1. up[l] \in {<<First(l)>>, <<Proof(l)>>} /\ up' = Received(up, l)
      BY <1>0, <1>3 DEF ServerSignature, EndsInv, Ways
    <3>2. QED
      BY <3>1, OneLine DEF Received
  <2>3. CASE Verify(First(l).hello.key, Answer(l), Head(up[l]))
    <3>1. /\ down' = Written(down, l, OK)
          /\ spc' = [spc EXCEPT ![l] = "session"]
          /\ UNCHANGED <<table, tor, line, cpc, request, sent, bounds>>
      BY <1>3, <2>1, <2>3 DEF ServerSignature
    <3>2. line[l] = "open" => At(l, "ok", "signature", <<Proof(l)>>, <<>>)
      BY <1>0, <1>3, <2>1 DEF ServerSignature, EndsInv, Together, At
    <3>3. down' = [down EXCEPT ![l] = IF line[l] = "open" THEN <<OK>> ELSE down[l]]
      BY <1>0, <3>1, <3>2, OneLine DEF Types, Written, At
    <3>4. Types'
      BY <1>0, <2>2, <3>1, <3>3 DEF Types, tor, bounds
    <3>5. EndsInv(l)'
      BY <1>0, <2>1, <2>2, <3>1, <3>2, <3>3 DEF Types, EndsInv, Ways, Known, Together, At
    <3>6. QED
      BY <2>2, <3>1, <3>3, <3>4, <3>5, OneLink
  <2>4. CASE ~Verify(First(l).hello.key, Answer(l), Head(up[l]))
    BY <1>3, <2>1, <2>2, <2>4, CloseKeeps DEF ServerSignature
  <2>5. QED
    BY <2>3, <2>4
<1>4. CASE ServerEOF(l)
  BY <1>4, CloseKeeps DEF ServerEOF
<1>5. QED
  BY <1>1, <1>2, <1>3, <1>4 DEF ServerStep

LEMMA HandshakeStep == HandshakeInv /\ [Next]_vars => HandshakeInv'
<1> SUFFICES ASSUME HandshakeInv, [Next]_vars
             PROVE  HandshakeInv'
  OBVIOUS
<1>1. ASSUME NEW n \in Node, Dialer(n) \/ Listen(n) \/ Die(n)
      PROVE  HandshakeInv'
  BY <1>1, NodeKeeps
<1>2. ASSUME NEW n \in Node, NEW m \in Node, AddPeer(n, m)
      PROVE  HandshakeInv'
  BY <1>2, PeersKeep
<1>3. ASSUME NEW l \in LinkOf, Dial(l) \/ ClientStep(l) \/ ServerStep(l) \/ Break(l)
      PROVE  HandshakeInv'
  BY <1>3, DialKeeps, ClientKeeps, ServerKeeps, BreakKeeps
<1>4. CASE UNCHANGED vars
  BY <1>4 DEF HandshakeInv, Types, EndsInv, Ways, Known, Together, At,
              vars, tor, wires, ends, bounds
<1>5. QED
  BY <1>1, <1>2, <1>3, <1>4 DEF Next
-----------------------------------------------------------------------------
(* For any nodes, what is on its way and what both ends know of each other
   stays as HandshakeInv says, through refusals, breaks and deaths. *)
THEOREM HandshakeInvariance == Spec => []HandshakeInv
<1>1. QED
  BY InitialHandshake, HandshakeStep, PTL DEF Spec

(* Every reachable state is well typed; no more than one line is on its way
   in either direction. *)
THEOREM TypeCorrectHandshake == Spec => []TypeOK
<1>1. HandshakeInv => TypeOK
  <2> SUFFICES ASSUME HandshakeInv
               PROVE  TypeOK
    OBVIOUS
  <2>1. ASSUME NEW l \in LinkOf
        PROVE  Len(up[l]) <= 1 /\ Len(down[l]) <= 1
    <3>1. Ways(l)
      BY DEF HandshakeInv, EndsInv
    <3>2. Len(up[l]) = 0 \/ Len(up[l]) = 1
      <4>1. CASE up[l] = <<>>
        BY <4>1
      <4>2. CASE up[l] = <<First(l)>>
        BY <4>2, OneLine
      <4>3. CASE up[l] = <<Proof(l)>>
        BY <4>3, OneLine
      <4>4. QED
        BY <3>1, <4>1, <4>2, <4>3 DEF Ways
    <3>3. Len(down[l]) = 0 \/ Len(down[l]) = 1
      <4>1. CASE down[l] = <<>>
        BY <4>1
      <4>2. CASE down[l] = <<Answer(l)>>
        BY <4>2, OneLine
      <4>3. CASE down[l] = <<OK>>
        BY <4>3, OneLine
      <4>4. QED
        BY <3>1, <4>1, <4>2, <4>3 DEF Ways
    <3>4. QED
      BY <3>2, <3>3, AtMostOne
  <2>2. QED
    BY <2>1 DEF HandshakeInv, Types, TypeOK
<1>2. QED
  BY <1>1, HandshakeInvariance, PTL

(* Whoever a server serves has connected, is one of its peers and has gone
   through the whole handshake, and a client that has its Conn is served. *)
THEOREM BothEndsAgree == Spec => []EndsAgree
<1>1. HandshakeInv => EndsAgree
  BY Messages DEF HandshakeInv, EndsInv, Known, Together, At, EndsAgree
<1>2. QED
  BY <1>1, HandshakeInvariance, PTL

(* A client never gives up over a connection that is open: the server does
   not wait for it in vain. *)
THEOREM NoneAbandoned == Spec => []NobodyAbandoned
<1>1. HandshakeInv => NobodyAbandoned
  BY DEF HandshakeInv, EndsInv, Together, At, NobodyAbandoned
<1>2. QED
  BY <1>1, HandshakeInvariance, PTL
=============================================================================
