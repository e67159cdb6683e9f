------------------------------ MODULE Peering ------------------------------
(***************************************************************************)
(* The goroutines of a node and the bounded channels between them:         *)
(*                                                                         *)
(*   sessions --(queue)--> Peers.Worker --(inbox[o])--> Peer.Worker o      *)
(*       \                     |                          |                *)
(*        `--------------- dbServer ----------------------'                *)
(*                             |                                           *)
(*                             `--(queue), from inside a cancel            *)
(*                                                                         *)
(* dbServer executes one command at a time and its caller waits for it, so *)
(* a command that only touches databases is a step that needs dbServer to  *)
(* be idle, or one step per durable write where a crash between the writes *)
(* matters.  The channel of dbServer itself is left out: a caller waits    *)
(* whether its command is in the channel or not.                           *)
(*                                                                         *)
(* Posts are articles, newgroup messages for the group of a new peer,      *)
(* cancels of those ("unpeer"), and a peer's sendme; what a post does to   *)
(* the article databases is Store.tla, what a feed sends is Feed.tla.      *)
(***************************************************************************)
EXTENDS Integers, Sequences, FiniteSets

CONSTANTS
    Session,    \* NNTP sessions
    Peer,       \* tor ids
    Self,       \* the node's own tor id
    None,       \* no peer, no session
    Manager,    \* Peers.Worker, as a caller of dbServer
    Posts,      \* what may be posted: [kind, peer]
    Stalled,    \* peers whose end of a connection never answers
    QueueCap,   \* capacity of Peers.Cmd
    InboxCap,   \* capacity of each Peer.Cmd
    MaxWorkers, \* bound: Peer objects for one peer in one life of the process
    MaxPosts,   \* bound: posts
    MaxCrash    \* bound: how often the process dies by itself

ASSUME PeeringAssumption ==
    /\ Self \in Peer /\ None \notin Peer /\ None \notin Session
    /\ Manager \notin Session /\ Manager # None
    /\ Posts \subseteq [kind : {"article", "newpeer", "unpeer", "sendme"}, peer : Peer \union {None}]
    /\ \A j \in Posts : j.kind # "article" => j.peer # None
    /\ Stalled \subseteq Peer
    /\ QueueCap \in Nat \ {0} /\ InboxCap \in Nat \ {0} /\ MaxWorkers \in Nat \ {0}
    /\ MaxPosts \in Nat /\ MaxCrash \in Nat

VARIABLES
    groups,  \* groups.db: the peers groups that have a row
    ready,   \* those whose own database has its tables and permissions
    cursors, \* those whose config has ControlMessages, Feed and LastMessage
    peers,   \* peers.db
    stored,  \* peers groups whose newgroup message is in the article store
    pc,      \* where each session is in Post
    job,     \* what it posts
    db,      \* what dbServer is in the middle of: [step, by, peer]
    queue,   \* Peers.Cmd: [cmd, peer, from]
    mgr,     \* what Peers.Worker is in the middle of
    conns,   \* Peers.Conns[p], the number of p's Peer object, 0 for none
    workers, \* how many Peer objects there are for p
    inbox,   \* the length of each Peer.Cmd
    wpc,     \* where each Peer.Worker is in its round
    told,    \* the place of a sendme in each Peer.Cmd, 0 for none
    serving, \* the Peer objects with a goroutine for a sendme
    asked,   \* the start-up Connect: "no", "queued", "done"
    early,   \* peers added before it was done
    posts, crashes

disk == <<groups, ready, cursors, peers, stored>>
sessions == <<pc, job>>
sendmes == <<told, serving>>
objects == <<workers, inbox, wpc, sendmes>>
vars == <<disk, sessions, db, queue, mgr, conns, objects, asked, early, posts, crashes>>

Object == Peer \X (1 .. MaxWorkers)
Live == {o \in Object : o[2] <= workers[o[1]]}

Idle == [step |-> "idle", by |-> None, peer |-> None]
Waiting == [cmd |-> "none", peer |-> None, from |-> None, todo |-> {}, at |-> None]

TypeOK ==
    /\ groups \subseteq Peer /\ ready \subseteq Peer /\ cursors \subseteq Peer
    /\ peers \subseteq Peer /\ stored \subseteq Peer
    /\ pc \in [Session -> {"idle", "newgroup", "addpeer", "waitadd", "cancel", "sendme",
                           "waitsend", "store", "distribute", "index"}]
    /\ job \in [Session -> Posts \union {None}]
    /\ db \in [step : {"idle", "tables", "peerrow", "remove"},
               by : Session \union {Manager, None}, peer : Peer \union {None}]
    /\ queue \in Seq([cmd : {"Connect", "AddPeer", "Distribute", "RemovePeer", "Sendme"},
                      peer : Peer \union {None}, from : Session \union {None}])
    /\ Len(queue) <= QueueCap
    /\ mgr \in [cmd : {"none", "Connect", "Distribute", "AddPeer", "NewPeer", "Sendme"},
                peer : Peer \union {None}, from : Session \union {None},
                todo : SUBSET Peer, at : Peer \union {None}]
    /\ workers \in [Peer -> 0 .. MaxWorkers]
    /\ conns \in [Peer -> 0 .. MaxWorkers]
    /\ inbox \in [Object -> 0 .. InboxCap]
    /\ wpc \in [Object -> {"idle", "net", "db"}]
    /\ told \in [Object -> 0 .. InboxCap] /\ serving \subseteq Object
    /\ asked \in {"no", "queued", "done"}
    /\ early \subseteq Peer
    /\ posts \in 0 .. MaxPosts
    /\ crashes \in 0 .. MaxCrash

Init ==
    /\ groups = {} /\ ready = {} /\ cursors = {} /\ peers = {} /\ stored = {}
    /\ pc = [s \in Session |-> "idle"]
    /\ job = [s \in Session |-> None]
    /\ db = Idle /\ queue = <<>> /\ mgr = Waiting
    /\ conns = [p \in Peer |-> 0]
    /\ workers = [p \in Peer |-> 0]
    /\ inbox = [o \in Object |-> 0]
    /\ wpc = [o \in Object |-> "idle"]
    /\ told = [o \in Object |-> 0] /\ serving = {}
    /\ asked = "no" /\ early = {}
    /\ posts = 0 /\ crashes = 0

(* The process dies, by a panic or otherwise, and starts again. *)
Die ==
    /\ pc' = [s \in Session |-> "idle"]
    /\ job' = [s \in Session |-> None]
    /\ db' = Idle /\ queue' = <<>> /\ mgr' = Waiting
    /\ conns' = [p \in Peer |-> 0]
    /\ workers' = [p \in Peer |-> 0]
    /\ inbox' = [o \in Object |-> 0]
    /\ wpc' = [o \in Object |-> "idle"]
    /\ told' = [o \in Object |-> 0] /\ serving' = {}
    /\ asked' = "no" /\ early' = {}
    /\ UNCHANGED <<disk, posts>>

Goto(s, l) == pc' = [pc EXCEPT ![s] = l]
Return(s) == Goto(s, "idle") /\ job' = [job EXCEPT ![s] = None]

(* Variant: a send that does not wait for room. *)
SendRegardless(c, p, s) ==
    queue' = Append(queue, [cmd |-> c, peer |-> p, from |-> s])

(* Peers.Cmd <- PeeringMessage{...} waits until the channel has room. *)
Send(c, p, s) ==
    /\ Len(queue) < QueueCap
    /\ queue' = Append(queue, [cmd |-> c, peer |-> p, from |-> s])
-----------------------------------------------------------------------------
(* Sessions: Post and CheckControl. *)

Submit(s, j) ==
    /\ pc[s] = "idle" /\ posts < MaxPosts
    /\ job' = [job EXCEPT ![s] = j]
    /\ Goto(s, CASE j.kind = "newpeer" -> "newgroup"
                 [] j.kind = "unpeer" -> "cancel"
                 [] j.kind = "sendme" -> "sendme"
                 [] OTHER -> "store")
    /\ posts' = posts + 1
    /\ UNCHANGED <<disk, db, queue, mgr, conns, objects, asked, early, crashes>>

(* newGroup, the INSERT: the name is UNIQUE. *)
NewGroup(s) ==
    /\ pc[s] = "newgroup" /\ db = Idle
    /\ \/ /\ job[s].peer \in groups
          /\ Return(s)
          /\ UNCHANGED <<groups, db>>
       \/ /\ job[s].peer \notin groups
          /\ groups' = groups \union {job[s].peer}
          /\ db' = [step |-> "tables", by |-> s, peer |-> job[s].peer]
          /\ UNCHANGED sessions
    /\ UNCHANGED <<ready, cursors, peers, stored, queue, mgr, conns, objects,
                   asked, early, posts, crashes>>

(* newGroup, the group's own database. *)
GroupTables ==
    /\ db.step = "tables"
    /\ ready' = ready \union {db.peer}
    /\ Goto(db.by, "addpeer")
    /\ db' = Idle
    /\ UNCHANGED <<groups, cursors, peers, stored, job, queue, mgr, conns, objects,
                   asked, early, posts, crashes>>

(* Peers.AddPeer, which then waits for errChan. *)
AddPeer(s) ==
    /\ pc[s] = "addpeer"
    /\ Send("AddPeer", job[s].peer, s)
    /\ Goto(s, "waitadd")
    /\ UNCHANGED <<disk, job, db, mgr, conns, objects, asked, early, posts, crashes>>

(* Peers.Sendme for the author of the message, which waits in the same way. *)
Sendme(s) ==
    /\ pc[s] = "sendme"
    /\ Send("Sendme", job[s].peer, s)
    /\ Goto(s, "waitsend")
    /\ UNCHANGED <<disk, job, db, mgr, conns, objects, asked, early, posts, crashes>>

(* CancelMessage: refused when its target is not stored (the error is
   swallowed); else dbServer gets to the call of RemovePeer. *)
Cancel(s) ==
    /\ pc[s] = "cancel" /\ db = Idle
    /\ \/ /\ job[s].peer \notin stored
          /\ Goto(s, "store")
          /\ UNCHANGED db
       \/ /\ job[s].peer \in stored
          /\ db' = [step |-> "remove", by |-> s, peer |-> job[s].peer]
          /\ UNCHANGED pc
    /\ UNCHANGED <<disk, job, queue, mgr, conns, objects, asked, early, posts, crashes>>

(* dbServer itself sends to Peers.Cmd, and then removes the message. *)
RemovePeer ==
    /\ db.step = "remove"
    /\ Send("RemovePeer", db.peer, None)
    /\ stored' = stored \ {db.peer}
    /\ Goto(db.by, "store")
    /\ db' = Idle
    /\ UNCHANGED <<groups, ready, cursors, peers, job, mgr, conns, objects,
                   asked, early, posts, crashes>>

StoreArticle(s) ==
    /\ pc[s] = "store" /\ db = Idle
    /\ stored' = IF job[s].kind = "newpeer" THEN stored \union {job[s].peer} ELSE stored
    /\ Goto(s, "distribute")
    /\ UNCHANGED <<groups, ready, cursors, peers, job, db, queue, mgr, conns, objects,
                   asked, early, posts, crashes>>

DistributeArticle(s) ==
    /\ pc[s] = "distribute"
    /\ Send("Distribute", None, None)
    /\ Goto(s, "index")
    /\ UNCHANGED <<disk, job, db, mgr, conns, objects, asked, early, posts, crashes>>

AddArticleToGroup(s) ==
    /\ pc[s] = "index" /\ db = Idle
    /\ Return(s)
    /\ UNCHANGED <<disk, db, queue, mgr, conns, objects, asked, early, posts, crashes>>
-----------------------------------------------------------------------------
(* Peers.Worker. *)

Next1(c) == mgr = Waiting /\ queue # <<>> /\ Head(queue).cmd = c
Take == queue' = Tail(queue)

(* NewPeer for each of ps: an object of its own, with a Connect to do, which
   takes the peer's place in Conns. *)
Start(ps) ==
    /\ \A p \in ps : workers[p] < MaxWorkers
    /\ workers' = [p \in Peer |-> IF p \in ps THEN workers[p] + 1 ELSE workers[p]]
    /\ conns' = [p \in Peer |-> IF p \in ps THEN workers[p] + 1 ELSE conns[p]]
    /\ inbox' = [o \in Object |->
                   IF o[1] \in ps /\ o[2] = workers[o[1]] + 1 THEN 1 ELSE inbox[o]]
    /\ UNCHANGED <<wpc, sendmes>>

(* go peers.Connect() of NewNNTPBackend. *)
AskConnect ==
    /\ asked = "no"
    /\ Send("Connect", None, None)
    /\ asked' = "queued"
    /\ UNCHANGED <<disk, sessions, db, mgr, conns, objects, early, posts, crashes>>

(* CmdConnect is taken, *)
HandleConnect ==
    /\ Next1("Connect")
    /\ Take
    /\ mgr' = [Waiting EXCEPT !.cmd = "Connect"]
    /\ UNCHANGED <<disk, sessions, db, conns, objects, asked, early, posts, crashes>>

(* Variant: the peers are taken from Conns, not from the table. *)
StartListed ==
    /\ mgr.cmd = "Connect" /\ db = Idle
    /\ Start({p \in Peer : conns[p] # 0})
    /\ mgr' = Waiting
    /\ asked' = "done"
    /\ UNCHANGED <<disk, sessions, db, queue, early, posts, crashes>>

(* and GetPeerList answered: a Peer for each. *)
StartPeers ==
    /\ mgr.cmd = "Connect" /\ db = Idle
    /\ Start(peers)
    /\ mgr' = Waiting
    /\ asked' = "done"
    /\ UNCHANGED <<disk, sessions, db, queue, early, posts, crashes>>

(* CmdDistribute goes to the peers of Conns in any order. *)
HandleDistribute ==
    /\ Next1("Distribute")
    /\ Take
    /\ LET known == {p \in Peer : conns[p] # 0}
       IN  mgr' = IF known = {} THEN Waiting
                  ELSE [Waiting EXCEPT !.cmd = "Distribute", !.todo = known]
    /\ UNCHANGED <<disk, sessions, db, conns, objects, asked, early, posts, crashes>>

PickPeer ==
    /\ mgr.cmd = "Distribute" /\ mgr.at = None
    /\ \E p \in mgr.todo : mgr' = [mgr EXCEPT !.at = p]
    /\ UNCHANGED <<disk, sessions, db, queue, conns, objects, asked, early, posts, crashes>>

(* peer.Cmd <- cmd, when there is room. *)
Deliver ==
    /\ mgr.cmd = "Distribute" /\ mgr.at # None
    /\ LET o == <<mgr.at, conns[mgr.at]>>
       IN  /\ inbox[o] < InboxCap
           /\ inbox' = [inbox EXCEPT ![o] = @ + 1]
    /\ mgr' = IF mgr.todo = {mgr.at} THEN Waiting
              ELSE [mgr EXCEPT !.todo = @ \ {mgr.at}, !.at = None]
    /\ UNCHANGED <<disk, sessions, db, queue, conns, workers, wpc, sendmes,
                   asked, early, posts, crashes>>

(* Variant: the refusal is not sent to errChan. *)
HandleAddPeerSilent ==
    /\ Next1("AddPeer")
    /\ Take
    /\ mgr' = IF Head(queue).peer = Self THEN mgr
              ELSE [Waiting EXCEPT !.cmd = "AddPeer", !.peer = Head(queue).peer,
                                   !.from = Head(queue).from]
    /\ UNCHANGED <<disk, sessions, db, conns, objects, asked, early, posts, crashes>>

(* CmdAddPeer: one's own id is refused. *)
HandleAddPeer ==
    /\ Next1("AddPeer")
    /\ Take
    /\ LET c == Head(queue)
       IN  \/ /\ c.peer = Self
              /\ Return(c.from)
              /\ UNCHANGED mgr
           \/ /\ c.peer # Self
              /\ mgr' = [Waiting EXCEPT !.cmd = "AddPeer", !.peer = c.peer, !.from = c.from]
              /\ UNCHANGED sessions
    /\ UNCHANGED <<disk, db, conns, objects, asked, early, posts, crashes>>

(* Variant: the peers row is written first. *)
AddPeerRowFirst ==
    /\ mgr.cmd = "AddPeer" /\ db = Idle
    /\ peers' = peers \union {mgr.peer}
    /\ db' = [step |-> "peerrow", by |-> Manager, peer |-> mgr.peer]
    /\ UNCHANGED <<groups, ready, cursors, stored, sessions, queue, mgr, conns, objects,
                   asked, early, posts, crashes>>

(* addPeer, the config of the peers group.  A peer with a row is refused,
   but NewGroup has refused it before. *)
AddPeerConfig ==
    /\ mgr.cmd = "AddPeer" /\ db = Idle /\ mgr.peer \notin peers
    /\ cursors' = cursors \union {mgr.peer}
    /\ db' = [step |-> "peerrow", by |-> Manager, peer |-> mgr.peer]
    /\ UNCHANGED <<groups, ready, peers, stored, sessions, queue, mgr, conns, objects,
                   asked, early, posts, crashes>>

(* addPeer, the peers row. *)
AddPeerRow ==
    /\ db.step = "peerrow"
    /\ peers' = peers \union {db.peer}
    /\ mgr' = [mgr EXCEPT !.cmd = "NewPeer"]
    /\ db' = Idle
    /\ UNCHANGED <<groups, ready, cursors, stored, sessions, queue, conns, objects,
                   asked, early, posts, crashes>>

(* Variant: the Connect goes to the manager's own channel. *)
NewPeerViaManager ==
    /\ mgr.cmd = "NewPeer" /\ Len(queue) < QueueCap
    /\ Start({mgr.peer})
    /\ queue' = Append(queue, [cmd |-> "Connect", peer |-> None, from |-> None])
    /\ Goto(mgr.from, "store")
    /\ early' = IF asked # "done" THEN early \union {mgr.peer} ELSE early
    /\ mgr' = Waiting
    /\ UNCHANGED <<disk, job, db, asked, posts, crashes>>

(* The rest of CmdAddPeer: a Peer, and nil to errChan. *)
NewPeer ==
    /\ mgr.cmd = "NewPeer"
    /\ Start({mgr.peer})
    /\ Goto(mgr.from, "store")
    /\ early' = IF asked # "done" THEN early \union {mgr.peer} ELSE early
    /\ mgr' = Waiting
    /\ UNCHANGED <<disk, job, db, queue, asked, posts, crashes>>

(* CmdRemovePeer carries the full name of the group, which is no key of
   Conns: the nil Peer is dereferenced. *)
HandleRemovePeer ==
    /\ Next1("RemovePeer")
    /\ Die
    /\ UNCHANGED crashes

(* CmdSendme goes to the Peer of its author, *)
HandleSendme ==
    /\ Next1("Sendme") /\ conns[Head(queue).peer] # 0
    /\ Take
    /\ mgr' = [Waiting EXCEPT !.cmd = "Sendme", !.peer = Head(queue).peer]
    /\ UNCHANGED <<disk, sessions, db, conns, objects, asked, early, posts, crashes>>

(* or to no Peer, when its author is not one. *)
HandleSendmePanics ==
    /\ Next1("Sendme") /\ conns[Head(queue).peer] = 0
    /\ Die
    /\ UNCHANGED crashes

DeliverSendme ==
    /\ mgr.cmd = "Sendme"
    /\ LET o == <<mgr.peer, conns[mgr.peer]>>
       IN  /\ inbox[o] < InboxCap
           /\ inbox' = [inbox EXCEPT ![o] = @ + 1]
           /\ told' = [told EXCEPT ![o] = IF @ = 0 THEN inbox[o] + 1 ELSE @]
    /\ mgr' = Waiting
    /\ UNCHANGED <<disk, sessions, db, queue, conns, workers, wpc, serving,
                   asked, early, posts, crashes>>
-----------------------------------------------------------------------------
(* Peer.Worker. *)

(* The ticker sends when the channel is empty. *)
Tick(o) ==
    /\ o \in Live /\ inbox[o] = 0
    /\ inbox' = [inbox EXCEPT ![o] = 1]
    /\ UNCHANGED <<disk, sessions, db, queue, mgr, conns, workers, wpc, sendmes,
                   asked, early, posts, crashes>>

(* A command is taken, a sendme by a goroutine of its own; the round of
   Connect and SendMessages follows whatever the command is. *)
Receive(o) ==
    /\ o \in Live /\ wpc[o] = "idle" /\ inbox[o] > 0
    /\ inbox' = [inbox EXCEPT ![o] = @ - 1]
    /\ wpc' = [wpc EXCEPT ![o] = "net"]
    /\ told' = [told EXCEPT ![o] = IF @ = 0 THEN 0 ELSE @ - 1]
    /\ serving' = IF told[o] = 1 THEN serving \union {o} ELSE serving
    /\ UNCHANGED <<disk, sessions, db, queue, mgr, conns, workers,
                   asked, early, posts, crashes>>

(* Connect, and the Client.Post of SendMessages. *)
Network(o) ==
    /\ o \in Live /\ wpc[o] = "net" /\ o[1] \notin Stalled
    /\ wpc' = [wpc EXCEPT ![o] = "db"]
    /\ UNCHANGED <<disk, sessions, db, queue, mgr, conns, workers, inbox, sendmes,
                   asked, early, posts, crashes>>

(* The database commands of SendMessages. *)
Databases(o) ==
    /\ o \in Live /\ wpc[o] = "db" /\ db = Idle
    /\ wpc' = [wpc EXCEPT ![o] = "idle"]
    /\ UNCHANGED <<disk, sessions, db, queue, mgr, conns, workers, inbox, sendmes,
                   asked, early, posts, crashes>>

(* The goroutine of a sendme: two values of the group's config are replaced,
   the subscriptions, which nobody reads, are deleted, and the answer of
   GroupUpdateSubscriptions is read past its end. *)
SendmePanics(o) ==
    /\ o \in serving /\ db = Idle
    /\ Die
    /\ UNCHANGED crashes
-----------------------------------------------------------------------------
Crash ==
    /\ crashes < MaxCrash
    /\ Die
    /\ crashes' = crashes + 1

SessionStep(s) ==
    \/ NewGroup(s) \/ AddPeer(s) \/ Cancel(s) \/ Sendme(s)
    \/ StoreArticle(s) \/ DistributeArticle(s) \/ AddArticleToGroup(s)

(* The goroutine a session waits for comes to its end. *)
Answer(s) ==
    /\ pc[s] = "waitsend"
    /\ \E o \in Object : o[1] = job[s].peer /\ SendmePanics(o)

ServerStep == GroupTables \/ RemovePeer \/ AddPeerRow

ManagerStep ==
    \/ HandleConnect \/ StartPeers \/ HandleDistribute
    \/ PickPeer \/ Deliver \/ HandleAddPeer \/ AddPeerConfig \/ NewPeer \/ HandleRemovePeer
    \/ HandleSendme \/ HandleSendmePanics \/ DeliverSendme

Round(o) == Receive(o) \/ Network(o) \/ Databases(o)

Next ==
    \/ \E s \in Session, j \in Posts : Submit(s, j)
    \/ \E s \in Session : SessionStep(s)
    \/ ServerStep
    \/ AskConnect
    \/ ManagerStep
    \/ \E o \in Object : Tick(o) \/ Round(o) \/ SendmePanics(o)
    \/ Crash

Spec == Init /\ [][Next]_vars

(* Every goroutine runs.  A Go channel serves those who wait for it in turn,
   so whoever wants dbServer, or room in the queue, again and again gets it.
   Only peers outside Stalled are known to answer, and the node never feeds
   itself. *)
Fairness ==
    /\ \A s \in Session : SF_vars(SessionStep(s) \/ Answer(s))
    /\ WF_vars(ServerStep)
    /\ SF_vars(AskConnect)
    /\ SF_vars(ManagerStep)
    /\ \A o \in (Peer \ {Self}) \X (1 .. MaxWorkers) : SF_vars(Round(o))

FairSpec == Spec /\ Fairness
-----------------------------------------------------------------------------
(***************************************************************************)
(* Properties.                                                             *)
(***************************************************************************)

(* Whatever a crash leaves half done, a peer of the peers table has a group
   with its tables and its permissions, and a cursor: the feed that is
   started for it at the next start finds what it needs. *)
PeersAreComplete == peers \subseteq groups \intersect ready \intersect cursors

(* Two workers for one peer come about only when the peer is added before
   the start-up Connect is handled, which lists it again. *)
TwoWorkersOnlyEarly ==
    \A p \in Peer : workers[p] <= IF p \in early THEN 2 ELSE 1

(* Every post is answered, or its process ends: the channels, dbServer and
   Peers.Worker never wait for each other in a circle, and no answer that a
   session waits for, of an AddPeer or a Sendme, fails to come. *)
EveryPostAnswered == \A s \in Session : pc[s] # "idle" ~> pc[s] = "idle"

(* kothawoc-idea.md:50, "When the app is started, it connects to all their
   friends": after every start each peer of the table gets a feed. *)
PeersConnected == \A p \in Peer : p \in peers ~> p \in peers /\ conns[p] # 0
=============================================================================
