----------------------------- MODULE Handshake ------------------------------
(***************************************************************************)
(* How nodes come to trust a connection: internal/torutils (TorCon,        *)
(* ClientHandshake, ServerHandshake), the accept loop torServer of         *)
(* client.go, and the dialling half of Peer.Connect.                       *)
(*                                                                         *)
(*   client                                   server                       *)
(*     | -- key, id, random, signature ------>  |  is the id one of my     *)
(*     |                                        |  peers? (GetPeerList)    *)
(*     | <-- key, id, random, signature of all -|                          *)
(*     | -- signature of that answer ---------> |                          *)
(*     | <------------------------------ OK ----|  the NNTP session starts *)
(*                                                                         *)
(* Every node runs both ends, against every peer, and dials again after a  *)
(* failure; connections break, nodes die and start again, and Tor may not  *)
(* come up.  All nodes run this program.  The random strings are left out: *)
(* they tell connections apart, and a connection carries only its own      *)
(* messages.                                                               *)
(***************************************************************************)
EXTENDS Naturals, Sequences

CONSTANTS
    Node,        \* the nodes, by tor id; an id is the hash of a key
    MaxBreaks,   \* bound: how often a connection breaks
    MaxDeaths,   \* bound: how often a node dies
    MaxTorFails  \* bound: how often Tor does not come up

ASSUME HandshakeAssumption ==
    MaxBreaks \in Nat /\ MaxDeaths \in Nat /\ MaxTorFails \in Nat

(* A link is an ordered pair: client and server. *)
LinkOf == {l \in Node \X Node : l[1] # l[2]}
Client(l) == l[1]
Server(l) == l[2]

VARIABLES
    table,   \* table[n]: the peers in n's peers.db
    dialer,  \* dialer[n]: TorCon.dialer
    onion,   \* onion[n]: the onion service of torServer
    line,    \* line[l]: the connection
    up,      \* up[l]: lines on their way to the server
    down,    \* down[l]: lines on their way to the client
    cpc,     \* cpc[l]: where the client is; "done" when Peer.Conn is set
    spc,     \* spc[l]: where the server's goroutine is
    request, \* request[l]: what the server has read first
    sent,    \* sent[l]: what the server has answered
    breaks, deaths, torFails

tor == <<dialer, onion>>
wires == <<line, up, down>>
ends == <<cpc, spc, request, sent>>
bounds == <<breaks, deaths, torFails>>
vars == <<table, tor, wires, ends, bounds>>

(* Messages.  A signature verifies with its maker's key on what it is of. *)
Sign(n, what) == [by |-> n, of |-> what]
Verify(key, what, sig) == sig = [by |-> key, of |-> what]

Hello(key, id) == [key |-> key, id |-> id]
Request(c) == [hello |-> Hello(c, c), sig |-> Sign(c, Hello(c, c))]

(* Variant: the server signs its own words only. *)
ResponseAlone(s, r) ==
    [hello |-> Hello(s, r.hello.id), sig |-> Sign(s, <<Hello(s, r.hello.id)>>)]

(* The server names the id of the client, not its own. *)
Response(s, r) ==
    [hello |-> Hello(s, r.hello.id), sig |-> Sign(s, <<Hello(s, r.hello.id), r>>)]

OK == [ok |-> TRUE]
None == [ok |-> FALSE]

TypeOK ==
    /\ table \in [Node -> SUBSET Node]
    /\ dialer \in [Node -> {"none", "set", "failed"}]
    /\ onion \in [Node -> {"none", "up", "failed"}]
    /\ line \in [LinkOf -> {"none", "open", "closed", "broken"}]
    /\ cpc \in [LinkOf -> {"none", "response", "ok", "done"}]
    /\ spc \in [LinkOf -> {"none", "request", "auth", "signature", "session"}]
    /\ \A l \in LinkOf : Len(up[l]) <= 1 /\ Len(down[l]) <= 1
    /\ breaks \in 0 .. MaxBreaks /\ deaths \in 0 .. MaxDeaths
    /\ torFails \in 0 .. MaxTorFails

Init ==
    /\ table = [n \in Node |-> {}]
    /\ dialer = [n \in Node |-> "none"] /\ onion = [n \in Node |-> "none"]
    /\ line = [l \in LinkOf |-> "none"]
    /\ up = [l \in LinkOf |-> <<>>] /\ down = [l \in LinkOf |-> <<>>]
    /\ cpc = [l \in LinkOf |-> "none"] /\ spc = [l \in LinkOf |-> "none"]
    /\ request = [l \in LinkOf |-> None] /\ sent = [l \in LinkOf |-> None]
    /\ breaks = 0 /\ deaths = 0 /\ torFails = 0
-----------------------------------------------------------------------------
(* A node. *)

(* The owner of n, by a newgroup message for its group, makes m a peer. *)
AddPeer(n, m) ==
    /\ m # n /\ m \notin table[n]
    /\ table' = [table EXCEPT ![n] = @ \union {m}]
    /\ UNCHANGED <<tor, wires, ends, bounds>>

(* NewTorCon sets the dialer some time after the start, once; when that
   fails nobody tries again. *)
Dialer(n) ==
    /\ dialer[n] = "none"
    /\ \/ /\ dialer' = [dialer EXCEPT ![n] = "set"]
          /\ UNCHANGED torFails
       \/ /\ torFails < MaxTorFails /\ torFails' = torFails + 1
          /\ dialer' = [dialer EXCEPT ![n] = "failed"]
    /\ UNCHANGED <<table, onion, wires, ends, breaks, deaths>>

(* torServer publishes the onion service, or ends after a minute, and
   NewClient does not look at its error. *)
Listen(n) ==
    /\ onion[n] = "none"
    /\ \/ /\ onion' = [onion EXCEPT ![n] = "up"]
          /\ UNCHANGED torFails
       \/ /\ torFails < MaxTorFails /\ torFails' = torFails + 1
          /\ onion' = [onion EXCEPT ![n] = "failed"]
    /\ UNCHANGED <<table, dialer, wires, ends, breaks, deaths>>

(* A node dies and starts again: its connections break, without what is on
   its way to it. *)
Die(n) ==
    /\ deaths < MaxDeaths /\ deaths' = deaths + 1
    /\ dialer' = [dialer EXCEPT ![n] = "none"]
    /\ onion' = [onion EXCEPT ![n] = "none"]
    /\ line' = [l \in LinkOf |->
                  IF n \in {Client(l), Server(l)} /\ line[l] # "none" THEN "broken"
                  ELSE line[l]]
    /\ up' = [l \in LinkOf |-> IF n = Server(l) THEN <<>> ELSE up[l]]
    /\ down' = [l \in LinkOf |-> IF n = Client(l) THEN <<>> ELSE down[l]]
    /\ cpc' = [l \in LinkOf |-> IF n = Client(l) THEN "none" ELSE cpc[l]]
    /\ spc' = [l \in LinkOf |-> IF n = Server(l) THEN "none" ELSE spc[l]]
    /\ UNCHANGED <<table, request, sent, breaks, torFails>>

(* The network drops a connection, and perhaps what is on its way. *)
Break(l) ==
    /\ line[l] = "open"
    /\ breaks < MaxBreaks /\ breaks' = breaks + 1
    /\ line' = [line EXCEPT ![l] = "broken"]
    /\ up' \in {up, [up EXCEPT ![l] = <<>>]}
    /\ down' \in {down, [down EXCEPT ![l] = <<>>]}
    /\ UNCHANGED <<table, tor, ends, deaths, torFails>>
-----------------------------------------------------------------------------
(* Writing and reading lines.  The errors of conn.Write are not looked at;
   a read ends with an error when nothing more can come. *)

Written(wire, l, m) == IF line[l] = "open" THEN [wire EXCEPT ![l] = Append(@, m)] ELSE wire
Ended(wire, l) == wire[l] = <<>> /\ line[l] # "open"
Received(wire, l) == [wire EXCEPT ![l] = Tail(@)]

(* The client. *)

(* Connect, with no Conn: the dial, and the first line of ClientHandshake. *)
Dial(l) ==
    /\ Server(l) \in table[Client(l)]
    /\ cpc[l] = "none" /\ spc[l] = "none"
    /\ dialer[Client(l)] = "set" /\ onion[Server(l)] = "up"
    /\ line' = [line EXCEPT ![l] = "open"]
    /\ up' = [up EXCEPT ![l] = <<Request(Client(l))>>]
    /\ down' = [down EXCEPT ![l] = <<>>]
    /\ cpc' = [cpc EXCEPT ![l] = "response"]
    /\ spc' = [spc EXCEPT ![l] = "request"]
    /\ UNCHANGED <<table, tor, request, sent, bounds>>

(* An error of ClientHandshake: Connect returns without closing. *)
ClientFails(l) ==
    /\ cpc' = [cpc EXCEPT ![l] = "none"]
    /\ UNCHANGED up

(* The response is verified over the client's whole first line, and signed. *)
ClientResponse(l) ==
    /\ cpc[l] = "response" /\ down[l] # <<>>
    /\ LET m == Head(down[l])
       IN  IF Verify(m.hello.key, <<m.hello, Request(Client(l))>>, m.sig)
           THEN /\ up' = Written(up, l, Sign(Client(l), m))
                /\ cpc' = [cpc EXCEPT ![l] = "ok"]
           ELSE ClientFails(l)
    /\ down' = Received(down, l)
    /\ UNCHANGED <<table, tor, line, spc, request, sent, bounds>>

(* The key is returned and Connect sets Conn. *)
ClientOK(l) ==
    /\ cpc[l] = "ok" /\ down[l] # <<>>
    /\ cpc' = [cpc EXCEPT ![l] = IF Head(down[l]) = OK THEN "done" ELSE "none"]
    /\ down' = Received(down, l)
    /\ UNCHANGED <<table, tor, line, up, spc, request, sent, bounds>>

ClientEOF(l) ==
    /\ cpc[l] \in {"response", "ok"} /\ Ended(down, l)
    /\ ClientFails(l)
    /\ UNCHANGED <<table, tor, line, down, spc, request, sent, bounds>>
-----------------------------------------------------------------------------
(* The server. *)

(* An error of ServerHandshake: torServer closes. *)
Close(l) ==
    /\ spc' = [spc EXCEPT ![l] = "none"]
    /\ line' = [line EXCEPT ![l] = IF @ = "open" THEN "closed" ELSE @]

(* The first line; its id must be that of its key. *)
ServerRequest(l) ==
    /\ spc[l] = "request" /\ up[l] # <<>>
    /\ LET m == Head(up[l])
       IN  IF m.hello.id = m.hello.key
           THEN /\ request' = [request EXCEPT ![l] = m]
                /\ spc' = [spc EXCEPT ![l] = "auth"]
                /\ UNCHANGED line
           ELSE Close(l) /\ UNCHANGED request
    /\ up' = Received(up, l)
    /\ UNCHANGED <<table, tor, down, cpc, sent, bounds>>

(* Variant: OK goes out with the response. *)
AuthEarlyOK(l) ==
    /\ spc[l] = "auth"
    /\ LET m == Response(Server(l), request[l])
       IN  /\ down' = Written(Written(down, l, m), l, OK)
           /\ sent' = [sent EXCEPT ![l] = m]
           /\ spc' = [spc EXCEPT ![l] = "signature"]
    /\ UNCHANGED <<table, tor, line, up, cpc, request, bounds>>

(* authCallback asks for the list of peers; the signature is verified and
   the response written. *)
Auth(l) ==
    /\ spc[l] = "auth"
    /\ LET r == request[l]
           m == Response(Server(l), r)
       IN  IF r.hello.key \in table[Server(l)] /\ Verify(r.hello.key, r.hello, r.sig)
           THEN /\ down' = Written(down, l, m)
                /\ sent' = [sent EXCEPT ![l] = m]
                /\ spc' = [spc EXCEPT ![l] = "signature"]
                /\ UNCHANGED line
           ELSE Close(l) /\ UNCHANGED <<down, sent>>
    /\ UNCHANGED <<table, tor, up, cpc, request, bounds>>

(* Variant: what is verified is the server's words without its signature. *)
ServerSignatureShort(l) ==
    /\ spc[l] = "signature" /\ up[l] # <<>>
    /\ IF Verify(request[l].hello.key, sent[l].hello, Head(up[l]))
       THEN /\ down' = Written(down, l, OK)
            /\ spc' = [spc EXCEPT ![l] = "session"]
            /\ UNCHANGED line
       ELSE Close(l) /\ UNCHANGED down
    /\ up' = Received(up, l)
    /\ UNCHANGED <<table, tor, cpc, request, sent, bounds>>

(* Variant: the session starts before the signature. *)
ServerTrusts(l) ==
    /\ spc[l] = "signature"
    /\ down' = IF down[l] = <<>> THEN Written(down, l, OK) ELSE down
    /\ spc' = [spc EXCEPT ![l] = "session"]
    /\ UNCHANGED <<table, tor, line, up, cpc, request, sent, bounds>>

(* The client's signature of all that was sent; OK, and the session. *)
ServerSignature(l) ==
    /\ spc[l] = "signature" /\ up[l] # <<>>
    /\ IF Verify(request[l].hello.key, sent[l], Head(up[l]))
       THEN /\ down' = Written(down, l, OK)
            /\ spc' = [spc EXCEPT ![l] = "session"]
            /\ UNCHANGED line
       ELSE Close(l) /\ UNCHANGED down
    /\ up' = Received(up, l)
    /\ UNCHANGED <<table, tor, cpc, request, sent, bounds>>

(* The connection ends while the server reads: the handshake fails, or the
   session is over.  Either way it is closed. *)
ServerEOF(l) ==
    /\ spc[l] \in {"request", "signature", "session"} /\ Ended(up, l)
    /\ Close(l)
    /\ UNCHANGED <<table, tor, up, down, cpc, request, sent, bounds>>
-----------------------------------------------------------------------------
ClientStep(l) == ClientResponse(l) \/ ClientOK(l) \/ ClientEOF(l)
ServerStep(l) == ServerRequest(l) \/ Auth(l) \/ ServerSignature(l) \/ ServerEOF(l)

Next ==
    \/ \E n \in Node : Dialer(n) \/ Listen(n) \/ Die(n)
    \/ \E n, m \in Node : AddPeer(n, m)
    \/ \E l \in LinkOf : Dial(l) \/ ClientStep(l) \/ ServerStep(l) \/ Break(l)

Spec == Init /\ [][Next]_vars

(* The goroutines run, and the ticker dials again and again. *)
Fairness ==
    /\ \A n \in Node : WF_vars(Dialer(n)) /\ WF_vars(Listen(n))
    /\ \A l \in LinkOf : SF_vars(Dial(l)) /\ WF_vars(ClientStep(l)) /\ WF_vars(ServerStep(l))

FairSpec == Spec /\ Fairness
-----------------------------------------------------------------------------
(***************************************************************************)
(* Properties.                                                             *)
(***************************************************************************)

(* The two ends agree.  A server that serves a session serves it for the
   client that has connected, which is one of its peers and has itself gone
   through the whole handshake; and a client that has its Conn has it to a
   server that serves it, as long as the connection holds. *)
EndsAgree ==
    \A l \in LinkOf :
        /\ spc[l] = "session" =>
             /\ request[l].hello.key = Client(l) /\ Client(l) \in table[Server(l)]
             /\ line[l] = "open" => cpc[l] \in {"ok", "done"}
        /\ cpc[l] = "done" /\ line[l] = "open" => spc[l] = "session"

(* Connect leaves a connection open when the handshake fails.  All the same
   no server waits at an open connection for a client that has given up. *)
NobodyAbandoned ==
    \A l \in LinkOf : line[l] = "open" => cpc[l] # "none"

(* Two nodes that are each other's peers get connected, in both directions,
   through refusals, breaks and deaths; unless Tor has failed the one as a
   dialler or the other as a listener, after which only a restart helps. *)
PeersConnect ==
    \A l \in LinkOf :
        /\ Server(l) \in table[Client(l)] /\ Client(l) \in table[Server(l)]
        ~> cpc[l] = "done" \/ dialer[Client(l)] = "failed" \/ onion[Server(l)] = "failed"
=============================================================================
