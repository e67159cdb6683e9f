-------------------------------- MODULE Link --------------------------------
(***************************************************************************)
(* One peer's connection in internal/peering.  Peer.Conn and Peer.Client   *)
(* are shared, without a lock, by the worker, which calls Connect before   *)
(* every SendMessages, and by a goroutine for each CmdConnect it is sent,  *)
(* which calls Connect too.  Every read or write of the two fields is a    *)
(* step of its own, as is everything that waits for the network.  A        *)
(* goroutine that calls a method of a nil Client takes the process down.   *)
(***************************************************************************)
EXTENDS Naturals, FiniteSets

CONSTANTS
    worker,      \* the worker goroutine
    Helper,      \* the goroutines started for CmdConnect
    Connection,  \* connections that may be dialled
    NoConn,      \* no connection
    Replies      \* what Authenticate may come to: "ok", "error"

ASSUME LinkAssumption ==
    worker \notin Helper /\ NoConn \notin Connection /\ IsFiniteSet(Helper)

Goroutine == Helper \union {worker}

VARIABLES
    conn,     \* Peer.Conn
    client,   \* Peer.Client, by the connection it was made on
    pc,       \* where each goroutine is
    mine,     \* the local variable conn of each goroutine's Connect
    opened,   \* connections dialled so far
    shaken,   \* those whose handshake has succeeded since the process started
    authed,   \* those on which the peer accepts posts
    silent,   \* those whose greeting did not come: NewConn has returned nil
    failed    \* those on which Authenticate has failed

history == <<opened, authed, silent, failed>>
linkVars == <<conn, client, pc, mine, shaken, history>>

LinkTypeOK ==
    /\ conn \in Connection \union {NoConn}
    /\ client \in Connection \union {NoConn}
    /\ pc \in [Goroutine -> {"idle", "dial", "handshake", "client", "conn",
                             "auth", "send", "post", "done"}]
    /\ mine \in [Goroutine -> Connection \union {NoConn}]
    /\ opened \subseteq Connection
    /\ shaken \subseteq opened
    /\ authed \subseteq opened
    /\ silent \subseteq opened
    /\ failed \subseteq opened

LinkInit ==
    /\ conn = NoConn
    /\ client = NoConn
    /\ pc = [x \in Goroutine |-> "idle"]
    /\ mine = [x \in Goroutine |-> NoConn]
    /\ opened = {} /\ shaken = {} /\ authed = {} /\ silent = {} /\ failed = {}
-----------------------------------------------------------------------------
(* Connect *)

(* Connect returns: the worker goes on to SendMessages. *)
Leave(x) == pc' = [pc EXCEPT ![x] = IF x = worker THEN "send" ELSE "done"]

(* Variant: the test of Conn is left out. *)
CheckNothing(x) ==
    /\ pc[x] = "idle"
    /\ pc' = [pc EXCEPT ![x] = "dial"]
    /\ UNCHANGED <<conn, client, mine, shaken, history>>

Check(x) ==
    /\ pc[x] = "idle"
    /\ IF conn # NoConn THEN Leave(x) ELSE pc' = [pc EXCEPT ![x] = "dial"]
    /\ UNCHANGED <<conn, client, mine, shaken, history>>

(* Variant: the return after a failed handshake is forgotten. *)
ConnectFailsOn(x) ==
    /\ \/ pc[x] = "dial" /\ Leave(x)
       \/ pc[x] = "handshake" /\ pc' = [pc EXCEPT ![x] = "client"]
    /\ UNCHANGED <<conn, client, mine, shaken, history>>

(* Dial fails (after its sleep), or the handshake does: in the second case
   the connection is left open. *)
ConnectFails(x) ==
    /\ pc[x] \in {"dial", "handshake"}
    /\ Leave(x)
    /\ UNCHANGED <<conn, client, mine, shaken, history>>

DialPeer(x) ==
    /\ pc[x] = "dial"
    /\ \E c \in Connection \ opened :
          /\ mine' = [mine EXCEPT ![x] = c]
          /\ opened' = opened \union {c}
    /\ pc' = [pc EXCEPT ![x] = "handshake"]
    /\ UNCHANGED <<conn, client, shaken, authed, silent, failed>>

ClientHandshake(x) ==
    /\ pc[x] = "handshake"
    /\ shaken' = shaken \union {mine[x]}
    /\ pc' = [pc EXCEPT ![x] = "client"]
    /\ UNCHANGED <<conn, client, mine, history>>

(* Variant: Conn first. *)
SetConnFirst(x) ==
    /\ pc[x] = "client"
    /\ conn' = mine[x]
    /\ pc' = [pc EXCEPT ![x] = "conn"]
    /\ UNCHANGED <<client, mine, shaken, history>>

(* nntpclient.NewConn has read the greeting. *)
SetClient(x) ==
    /\ pc[x] = "client"
    /\ client' = mine[x]
    /\ pc' = [pc EXCEPT ![x] = "conn"]
    /\ UNCHANGED <<conn, mine, shaken, history>>

(* NewConn fails, and its error is ignored: what it returns is nil, and takes
   the place of whatever Client there is. *)
NoGreeting(x) ==
    /\ pc[x] = "client"
    /\ client' = NoConn
    /\ silent' = silent \union {mine[x]}
    /\ pc' = [pc EXCEPT ![x] = "conn"]
    /\ UNCHANGED <<conn, mine, shaken, opened, authed, failed>>

(* Conn is set with a greeting or without. *)
SetConn(x) ==
    /\ pc[x] = "conn"
    /\ conn' = mine[x]
    /\ pc' = [pc EXCEPT ![x] = "auth"]
    /\ UNCHANGED <<client, mine, shaken, history>>

(* Variant: Authenticate is left to a goroutine of its own. *)
AuthenticateLater(x) ==
    /\ pc[x] = "auth"
    /\ Leave(x)
    /\ UNCHANGED <<conn, client, mine, shaken, history>>

(* Until Authenticate has been answered the peer's EmptyNntpBackend refuses
   every post.  The result is ignored.  (c is nil where there was no greeting:
   ProcessDies.) *)
Authenticate(x) ==
    /\ pc[x] = "auth" /\ mine[x] \notin silent
    /\ \/ "ok" \in Replies /\ authed' = authed \union {mine[x]} /\ UNCHANGED failed
       \/ "error" \in Replies /\ failed' = failed \union {mine[x]} /\ UNCHANGED authed
    /\ Leave(x)
    /\ UNCHANGED <<conn, client, mine, shaken, opened, silent>>
-----------------------------------------------------------------------------
(* SendMessages returns without a Conn, or without an article to send. *)
NothingToSend ==
    /\ pc[worker] = "send"
    /\ pc' = [pc EXCEPT ![worker] = "idle"]
    /\ UNCHANGED <<conn, client, mine, shaken, history>>

FetchArticle ==
    /\ pc[worker] = "send" /\ conn # NoConn
    /\ pc' = [pc EXCEPT ![worker] = "post"]
    /\ UNCHANGED <<conn, client, mine, shaken, history>>

(* Client.Post: refused or not, LastMessage moves past the article.  Client
   is read again here, and may be nil by now: ProcessDies. *)
Post ==
    /\ pc[worker] = "post" /\ client # NoConn
    /\ pc' = [pc EXCEPT ![worker] = "idle"]
    /\ UNCHANGED <<conn, client, mine, shaken, history>>

(* The process dies, of c.Authenticate or p.Client.Post on nil or of anything
   else, and starts again with nothing connected. *)
ProcessDies ==
    /\ conn' = NoConn /\ client' = NoConn
    /\ pc' = [x \in Goroutine |-> "idle"]
    /\ mine' = [x \in Goroutine |-> NoConn]
    /\ shaken' = {}
    /\ UNCHANGED history
-----------------------------------------------------------------------------
Connect(x) ==
    \/ Check(x) \/ ConnectFails(x) \/ DialPeer(x) \/ ClientHandshake(x)
    \/ SetClient(x) \/ NoGreeting(x) \/ SetConn(x) \/ Authenticate(x)

SendMessages == NothingToSend \/ FetchArticle \/ Post

LinkNext == (\E x \in Goroutine : Connect(x)) \/ SendMessages \/ ProcessDies

LinkSpec == LinkInit /\ [][LinkNext]_linkVars
-----------------------------------------------------------------------------
(***************************************************************************)
(* Properties.                                                             *)
(***************************************************************************)

(* x has no Client and is about to use it: the process will not live on. *)
Doomed(x) == mine[x] \in silent /\ pc[x] \in {"conn", "auth"}

(* The worker, which tests Conn and then uses Client, finds no Client only
   where the process is lost anyway: a goroutine that got no greeting has
   taken the Client away, and will die of it itself. *)
PostFindsClient ==
    pc[worker] = "post" /\ client = NoConn => \E h \in Helper : Doomed(h)

(* However often Connect is called, each goroutine gets at most one
   connection through the handshake: a peer never has more than one
   connection too many. *)
OneConnectionEach == Cardinality(shaken) <= Cardinality(Goroutine)

(* A post with a Client can be refused only because Authenticate failed, or
   because the Client is one that a CmdConnect goroutine has not authenticated
   yet: what the worker connects by itself is always ready to be used. *)
RefusedOnlyInRace ==
    pc[worker] = "post" /\ client \notin authed \union {NoConn} =>
        \/ client \in failed
        \/ \E h \in Helper : mine[h] = client /\ pc[h] \in {"conn", "auth"}

(* The connection and the client the worker is left with are of this life of
   the process, and their handshakes have succeeded. *)
OnlyShaken == {conn, client} \subseteq shaken \union {NoConn}
=============================================================================
