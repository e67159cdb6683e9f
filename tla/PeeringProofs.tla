--------------------------- MODULE PeeringProofs ----------------------------
(***************************************************************************)
(* Proofs about Peering for any sessions, peers, posts, capacities and     *)
(* bounds.  PeeringInv follows the newgroup message of a new peer through  *)
(* the node: a session whose INSERT into groups.db has succeeded holds the *)
(* right to add that peer, alone, until Peers.Worker has made the Peer.    *)
(***************************************************************************)
EXTENDS Peering, TLAPS

(* What a session is at the place of is what it was given to post. *)
JobInv ==
    \A s \in Session :
        /\ pc[s] # "idle" => job[s] \in Posts
        /\ pc[s] \in {"newgroup", "addpeer", "waitadd"} => job[s].kind = "newpeer"
        /\ pc[s] = "cancel" => job[s].kind = "unpeer"
        /\ pc[s] = "sendme" => job[s].kind = "sendme"

(* The command dbServer is in the middle of, and its caller, who waits. *)
DbInv ==
    /\ db.step = "tables" =>
          db.by \in Session /\ pc[db.by] = "newgroup" /\ job[db.by].peer = db.peer
    /\ db.step = "remove" =>
          db.by \in Session /\ pc[db.by] = "cancel" /\ job[db.by].peer = db.peer
    /\ db.step = "peerrow" => mgr.cmd = "AddPeer" /\ mgr.peer = db.peer /\ db.peer \in cursors

(* The caller of AddPeer that a message, or Peers.Worker, is to answer. *)
Caller(c) == c.from \in Session /\ pc[c.from] = "waitadd" /\ job[c.from].peer = c.peer

MgrInv ==
    /\ mgr.cmd \in {"AddPeer", "NewPeer"} => Caller(mgr)
    /\ mgr.cmd = "NewPeer" => mgr.peer \in peers
    /\ mgr.cmd = "Sendme" => mgr.peer \in Peer /\ conns[mgr.peer] # 0
    /\ mgr.cmd = "Distribute" => \A p \in mgr.todo : conns[p] # 0
    /\ mgr.at # None => mgr.at \in mgr.todo

QueueInv ==
    /\ \A i \in 1 .. Len(queue) :
          /\ queue[i].cmd = "AddPeer" => Caller(queue[i])
          /\ queue[i].cmd = "AddPeer" /\ mgr.cmd \in {"AddPeer", "NewPeer"} =>
                queue[i].from # mgr.from
          /\ queue[i].cmd = "Sendme" => queue[i].peer \in Peer
    /\ \A i, j \in 1 .. Len(queue) :
          queue[i].cmd = "AddPeer" /\ queue[j].cmd = "AddPeer" /\ queue[i].from = queue[j].from =>
              i = j

(* The start-up Connect is in the queue, or with Peers.Worker, or over. *)
ConnectInv ==
    /\ \A i \in 1 .. Len(queue) :
          queue[i].cmd = "Connect" => asked = "queued" /\ mgr.cmd # "Connect"
    /\ \A i, j \in 1 .. Len(queue) :
          queue[i].cmd = "Connect" /\ queue[j].cmd = "Connect" => i = j
    /\ mgr.cmd = "Connect" => asked = "queued"

(* The right to add a peer: the INSERT of its group has succeeded, and its
   Peer is not made yet. *)
Adding(s) == pc[s] \in {"addpeer", "waitadd"} \/ (db.step = "tables" /\ db.by = s)

RightInv ==
    /\ \A s \in Session : Adding(s) => job[s].peer \in groups
    /\ \A s \in Session : pc[s] \in {"addpeer", "waitadd"} => job[s].peer \in ready
    /\ \A s \in Session : Adding(s) /\ job[s].peer \in peers =>
          mgr.cmd = "NewPeer" /\ mgr.from = s
    /\ \A s, t \in Session : Adding(s) /\ Adding(t) /\ job[s].peer = job[t].peer => s = t

WorkInv ==
    /\ \A p \in Peer : workers[p] # 0 => p \in peers
    /\ mgr.cmd = "NewPeer" => workers[mgr.peer] = 0
    /\ asked # "done" => \A p \in Peer : workers[p] # 0 => workers[p] = 1 /\ p \in early

PeeringInv ==
    /\ TypeOK /\ JobInv /\ DbInv /\ MgrInv /\ QueueInv /\ ConnectInv /\ RightInv /\ WorkInv
    /\ PeersAreComplete /\ TwoWorkersOnlyEarly
-----------------------------------------------------------------------------
(* What a session posts, typed. *)
LEMMA JobPeer ==
  ASSUME PeeringInv, NEW s \in Session,
         pc[s] \in {"newgroup", "addpeer", "waitadd", "cancel", "sendme"}
  PROVE  job[s] \in Posts /\ job[s].peer \in Peer
<1>1. job[s] \in Posts /\ job[s].kind # "article"
  BY DEF PeeringInv, JobInv
<1>2. QED
  BY <1>1, PeeringAssumption

(* An entry of a queue that has got one more, or lost its first. *)
LEMMA Entries ==
  ASSUME NEW S, NEW q \in Seq(S), NEW m \in S
  PROVE  /\ Len(Append(q, m)) = Len(q) + 1 /\ Append(q, m)[Len(q) + 1] = m
         /\ \A i \in 1 .. Len(q) : Append(q, m)[i] = q[i]
         /\ q # <<>> => /\ Len(Tail(q)) = Len(q) - 1 /\ Head(q) = q[1] /\ Len(q) >= 1
                       /\ \A i \in 1 .. Len(q) - 1 : Tail(q)[i] = q[i + 1]
OBVIOUS

Message == [cmd : {"Connect", "AddPeer", "Distribute", "RemovePeer", "Sendme"},
            peer : Peer \union {None}, from : Session \union {None}]

LEMMA QueueType ==
  ASSUME TypeOK
  PROVE  queue \in Seq(Message) /\ Len(queue) \in Nat
BY DEF TypeOK, Message

LEMMA InitialPeering == Init => PeeringInv
  BY PeeringAssumption
  DEF Init, PeeringInv, TypeOK, JobInv, DbInv, MgrInv, QueueInv, ConnectInv, RightInv, WorkInv,
      Adding, PeersAreComplete, TwoWorkersOnlyEarly, Idle, Waiting

(* The death of the process: what is on disk is as complete as before. *)
LEMMA DieKeeps ==
  ASSUME PeeringInv, Die, crashes' \in 0 .. MaxCrash
  PROVE  PeeringInv'
<1> USE PeeringAssumption DEF PeeringInv, Die, disk
<1>1. TypeOK'
  BY DEF TypeOK, Idle, Waiting
<1>2. JobInv' /\ DbInv' /\ MgrInv' /\ QueueInv' /\ ConnectInv'
  BY DEF JobInv, DbInv, MgrInv, QueueInv, ConnectInv, Idle, Waiting
<1>3. RightInv' /\ WorkInv'
  BY DEF RightInv, WorkInv, Adding, Idle, Waiting
<1>4. PeersAreComplete' /\ TwoWorkersOnlyEarly'
  BY DEF PeersAreComplete, TwoWorkersOnlyEarly
<1>5. QED
  BY <1>1, <1>2, <1>3, <1>4
-----------------------------------------------------------------------------
(* Steps that change only the channels and the rounds of the Peer.Workers. *)
LEMMA RoundsKeep ==
  ASSUME PeeringInv, TypeOK',
         UNCHANGED <<groups, ready, cursors, peers, pc, job, db, queue, mgr, conns,
                     workers, asked, early>>
  PROVE  PeeringInv'
<1> USE DEF PeeringInv
<1>1. JobInv' /\ DbInv' /\ MgrInv' /\ QueueInv' /\ ConnectInv'
  BY DEF JobInv, DbInv, MgrInv, QueueInv, ConnectInv, Caller
<1>2. RightInv' /\ WorkInv'
  BY DEF RightInv, WorkInv, Adding
<1>3. PeersAreComplete' /\ TwoWorkersOnlyEarly'
  BY DEF PeersAreComplete, TwoWorkersOnlyEarly
<1>4. QED
  BY <1>1, <1>2, <1>3

(* Steps of a session that is not adding a peer and does not begin to, with
   or without a message to Peers.Worker. *)
Harmless(m) == m \in Message /\ m.cmd \notin {"AddPeer", "Connect"} /\ (m.cmd = "Sendme" => m.peer \in Peer)
Released(s) ==
    \/ UNCHANGED db /\ (db.step \in {"tables", "remove"} => db.by # s)
    \/ db' = Idle /\ db.step # "tables"

LEMMA MovesKeep ==
  ASSUME PeeringInv, TypeOK', NEW s \in Session, JobInv',
         pc[s] \notin {"addpeer", "waitadd"}, pc'[s] \notin {"addpeer", "waitadd"},
         \A t \in Session \ {s} : pc'[t] = pc[t] /\ job'[t] = job[t],
         Released(s),
         NEW m, UNCHANGED queue \/ (queue' = Append(queue, m) /\ Harmless(m)),
         UNCHANGED <<groups, ready, cursors, peers, mgr, conns, workers, asked, early>>
  PROVE  PeeringInv'
<1> USE DEF PeeringInv
<1>1. \A c : Caller(c) => Caller(c)'
  BY DEF Caller
<1>2. DbInv'
  BY DEF DbInv, Released, Idle
<1>3. MgrInv'
  BY <1>1 DEF MgrInv
<1>4. QueueInv' /\ ConnectInv'
  <2>1. CASE UNCHANGED queue
    BY <1>1, <2>1 DEF QueueInv, ConnectInv
  <2>2. CASE queue' = Append(queue, m) /\ Harmless(m)
    <3>1. \A i \in 1 .. Len(queue') : (i \in 1 .. Len(queue) /\ queue'[i] = queue[i])
                                     \/ queue'[i] = m
      BY <2>2, Entries, QueueType DEF Harmless
    <3>2. QED
      BY <1>1, <2>2, <3>1 DEF QueueInv, ConnectInv, Harmless
  <2>3. QED
    BY <2>1, <2>2
<1>5. \A t \in Session : Adding(t)' => t # s /\ Adding(t)
  BY DEF Adding, Released, Idle
<1>6. RightInv'
  BY <1>5 DEF RightInv
<1>7. WorkInv' /\ PeersAreComplete' /\ TwoWorkersOnlyEarly'
  BY DEF WorkInv, PeersAreComplete, TwoWorkersOnlyEarly
<1>8. QED
  BY <1>2, <1>3, <1>4, <1>6, <1>7

(* Steps of Peers.Worker that have nothing to do with AddPeer. *)
LEMMA ManagerKeeps ==
  ASSUME PeeringInv, TypeOK', MgrInv', ConnectInv',
         mgr.cmd \notin {"AddPeer", "NewPeer"}, mgr'.cmd \notin {"AddPeer", "NewPeer"},
         UNCHANGED queue \/ (queue # <<>> /\ queue' = Tail(queue)),
         UNCHANGED <<groups, ready, cursors, peers, pc, job, db, conns, workers, asked, early>>
  PROVE  PeeringInv'
<1> USE DEF PeeringInv
<1>1. JobInv' /\ DbInv'
  BY DEF JobInv, DbInv
<1>2. QueueInv'
  <2>1. CASE UNCHANGED queue
    BY <2>1 DEF QueueInv, Caller
  <2>2. CASE queue # <<>> /\ queue' = Tail(queue)
    <3>1. \A i \in 1 .. Len(queue') : i + 1 \in 1 .. Len(queue) /\ queue'[i] = queue[i + 1]
      BY <2>2, Entries, QueueType
    <3>2. \A c : Caller(c)' = Caller(c)
      BY DEF Caller
    <3>3. ASSUME NEW i \in 1 .. Len(queue')
          PROVE  /\ queue'[i].cmd = "AddPeer" => Caller(queue[i])'
                 /\ queue'[i].cmd = "Sendme" => queue'[i].peer \in Peer
      BY <3>1, <3>2 DEF QueueInv
    <3>4. ASSUME NEW i \in 1 .. Len(queue'), NEW j \in 1 .. Len(queue'),
                 queue'[i].cmd = "AddPeer", queue'[j].cmd = "AddPeer",
                 queue'[i].from = queue'[j].from
          PROVE  i = j
      <4>1. i + 1 = j + 1
        BY <3>1, <3>4 DEF QueueInv
      <4>2. QED
        BY <4>1, QueueType
    <3>5. QED
      BY <3>3, <3>4 DEF QueueInv
  <2>3. QED
    BY <2>1, <2>2
<1>3. RightInv'
  BY DEF RightInv, Adding
<1>4. WorkInv' /\ PeersAreComplete' /\ TwoWorkersOnlyEarly'
  BY DEF WorkInv, PeersAreComplete, TwoWorkersOnlyEarly
<1>5. QED
  BY <1>1, <1>2, <1>3, <1>4
-----------------------------------------------------------------------------
(* One lemma per action, or per few of the same shape. *)

LEMMA SubmitKeeps ==
  ASSUME PeeringInv, NEW s \in Session, NEW j \in Posts, Submit(s, j)
  PROVE  PeeringInv'
<1> USE PeeringAssumption DEF Submit, Goto
<1>1. j.kind \in {"article", "newpeer", "unpeer", "sendme"}
  OBVIOUS
<1>2. pc'[s] \in {"newgroup", "cancel", "sendme", "store"}
  BY <1>1 DEF PeeringInv, TypeOK
<1>3. TypeOK'
  <2>1. /\ pc' \in [Session -> {"idle", "newgroup", "addpeer", "waitadd", "cancel", "sendme",
                                "waitsend", "store", "distribute", "index"}]
        /\ job' \in [Session -> Posts \union {None}]
    BY <1>1 DEF PeeringInv, TypeOK
  <2>2. posts' \in 0 .. MaxPosts
    <3>1. posts' = posts + 1 /\ posts < MaxPosts
      OBVIOUS
    <3> HIDE DEF Submit, Goto
    <3>2. posts \in 0 .. MaxPosts
      BY DEF PeeringInv, TypeOK
    <3> QED BY <3>1, <3>2
  <2>3. UNCHANGED <<disk, db, queue, mgr, conns, objects, asked, early, crashes>>
    OBVIOUS
  <2> HIDE DEF Submit
  <2>4. QED
    BY <2>1, <2>2, <2>3 DEF PeeringInv, TypeOK, disk, objects, sendmes
<1>4. \A t \in Session \ {s} : pc'[t] = pc[t] /\ job'[t] = job[t]
  OBVIOUS
<1>5. JobInv'
  BY <1>1, <1>4 DEF PeeringInv, JobInv, TypeOK
<1>6. Released(s)
  BY DEF Released, PeeringInv, DbInv
<1>7. QED
  BY <1>2, <1>3, <1>4, <1>5, <1>6, MovesKeep DEF disk, objects

LEMMA NewGroupKeeps ==
  ASSUME PeeringInv, NEW s \in Session, NewGroup(s)
  PROVE  PeeringInv'
<1>1. job[s] \in Posts /\ job[s].peer \in Peer
  BY JobPeer DEF NewGroup
<1>2. CASE job[s].peer \in groups
  <2>1. /\ Return(s) /\ db = Idle
        /\ UNCHANGED <<disk, db, queue, mgr, conns, objects, asked, early, posts, crashes>>
    BY <1>2 DEF NewGroup, disk
  <2>2. TypeOK' /\ JobInv'
    BY <2>1 DEF PeeringInv, TypeOK, JobInv, Return, Goto, disk, objects, sendmes
  <2>3. /\ pc[s] = "newgroup" /\ pc'[s] = "idle" /\ Released(s)
        /\ \A t \in Session \ {s} : pc'[t] = pc[t] /\ job'[t] = job[t]
    BY <2>1 DEF PeeringInv, TypeOK, Return, Goto, Released, Idle, NewGroup
  <2>4. QED
    BY <2>1, <2>2, <2>3, MovesKeep DEF disk, objects
<1>3. CASE job[s].peer \notin groups
  <2>1. /\ pc[s] = "newgroup" /\ db = Idle
        /\ groups' = groups \union {job[s].peer}
        /\ db' = [step |-> "tables", by |-> s, peer |-> job[s].peer]
        /\ UNCHANGED <<ready, cursors, peers, stored, sessions, queue, mgr, conns, objects,
                       asked, early, posts, crashes>>
    BY <1>3 DEF NewGroup
  <2> USE <2>1 DEF PeeringInv, sessions, objects, sendmes
  <2>2. TypeOK'
    BY <1>1 DEF TypeOK
  <2>3. JobInv' /\ DbInv' /\ MgrInv' /\ QueueInv' /\ ConnectInv'
    BY DEF JobInv, DbInv, MgrInv, QueueInv, ConnectInv, Caller, Idle
  <2>4. RightInv'
    <3>1. \A t \in Session : Adding(t)' <=> Adding(t) \/ t = s
      BY DEF Adding, Idle
    <3>2. job[s].peer \notin peers
      BY <1>3 DEF PeersAreComplete
    <3>3. \A t \in Session : Adding(t) => job[t].peer # job[s].peer
      BY <1>3 DEF RightInv
    <3>4. QED
      BY <3>1, <3>2, <3>3 DEF RightInv
  <2>5. WorkInv' /\ PeersAreComplete' /\ TwoWorkersOnlyEarly'
    BY DEF WorkInv, PeersAreComplete, TwoWorkersOnlyEarly
  <2>6. QED
    BY <2>2, <2>3, <2>4, <2>5
<1>4. QED
  BY <1>2, <1>3

LEMMA GroupTablesKeeps ==
  ASSUME PeeringInv, GroupTables
  PROVE  PeeringInv'
<1> USE DEF PeeringInv, GroupTables, Goto, objects, sendmes
<1> DEFINE s == db.by
<1>1. s \in Session /\ pc[s] = "newgroup" /\ job[s].peer = db.peer /\ db.peer \in Peer
  BY JobPeer DEF DbInv
<1>2. \A t \in Session : pc'[t] = IF t = s THEN "addpeer" ELSE pc[t]
  BY DEF TypeOK
<1>3. TypeOK'
  BY <1>1 DEF TypeOK, Idle
<1>4. \A c : Caller(c) => Caller(c)'
  BY <1>1, <1>2 DEF Caller
<1>5. JobInv'
  BY <1>1, <1>2 DEF JobInv
<1>6. DbInv' /\ MgrInv' /\ QueueInv' /\ ConnectInv'
  BY <1>4 DEF DbInv, MgrInv, QueueInv, ConnectInv, Idle
<1>7. \A t \in Session : Adding(t)' <=> Adding(t)
  BY <1>1, <1>2 DEF Adding, Idle
<1>8. RightInv'
  BY <1>1, <1>2, <1>7 DEF RightInv
<1>9. WorkInv' /\ PeersAreComplete' /\ TwoWorkersOnlyEarly'
  BY DEF WorkInv, PeersAreComplete, TwoWorkersOnlyEarly
<1>10. QED
  BY <1>3, <1>5, <1>6, <1>8, <1>9

LEMMA AddPeerKeeps ==
  ASSUME PeeringInv, NEW s \in Session, AddPeer(s)
  PROVE  PeeringInv'
<1> USE DEF PeeringInv, AddPeer, Send, Goto, objects, sendmes, disk
<1> DEFINE m == [cmd |-> "AddPeer", peer |-> job[s].peer, from |-> s]
<1>1. job[s].peer \in Peer /\ m \in Message
  BY JobPeer DEF Message
<1>2. \A t \in Session : pc'[t] = IF t = s THEN "waitadd" ELSE pc[t]
  BY DEF TypeOK
<1>3. TypeOK'
  <2>1. queue' \in Seq(Message) /\ Len(queue') <= QueueCap
    BY <1>1, Entries, QueueType, PeeringAssumption
  <2>2. QED
    BY <2>1 DEF TypeOK, Message
<1>4. \A c : Caller(c) => c.from # s /\ Caller(c)'
  BY <1>2 DEF Caller
<1>5. JobInv' /\ DbInv' /\ MgrInv'
  BY <1>2, <1>4 DEF JobInv, DbInv, MgrInv
<1>6. \A i \in 1 .. Len(queue') : (i \in 1 .. Len(queue) /\ queue'[i] = queue[i])
                                 \/ (i = Len(queue) + 1 /\ queue'[i] = m)
  BY <1>1, Entries, QueueType
<1>7. Caller(m)'
  BY <1>2 DEF Caller
<1>8. QueueInv'
  BY <1>4, <1>6, <1>7 DEF QueueInv, MgrInv
<1>9. ConnectInv'
  BY <1>6 DEF ConnectInv
<1>10. \A t \in Session : Adding(t)' <=> Adding(t)
  BY <1>2 DEF Adding
<1>11. RightInv'
  BY <1>2, <1>10 DEF RightInv
<1>12. WorkInv' /\ PeersAreComplete' /\ TwoWorkersOnlyEarly'
  BY DEF WorkInv, PeersAreComplete, TwoWorkersOnlyEarly
<1>13. QED
  BY <1>3, <1>5, <1>8, <1>9, <1>11, <1>12

LEMMA SendmeKeeps ==
  ASSUME PeeringInv, NEW s \in Session, Sendme(s)
  PROVE  PeeringInv'
<1> USE DEF Sendme, Send, Goto
<1> DEFINE m == [cmd |-> "Sendme", peer |-> job[s].peer, from |-> s]
<1>1. job[s].peer \in Peer /\ Harmless(m)
  BY JobPeer DEF Harmless, Message
<1>2. TypeOK'
  <2>1. queue' \in Seq(Message) /\ Len(queue') <= QueueCap
    BY <1>1, Entries, QueueType, PeeringAssumption DEF PeeringInv, Harmless
  <2>2. QED
    BY <2>1 DEF PeeringInv, TypeOK, Message, disk, objects, sendmes
<1>3. JobInv' /\ Released(s)
  BY DEF PeeringInv, JobInv, DbInv, Released, TypeOK
<1>4. \A t \in Session \ {s} : pc'[t] = pc[t] /\ job'[t] = job[t]
  OBVIOUS
<1>5. pc'[s] = "waitsend"
  BY DEF PeeringInv, TypeOK
<1>6. QED
  BY <1>1, <1>2, <1>3, <1>4, <1>5, MovesKeep DEF disk, objects

LEMMA CancelKeeps ==
  ASSUME PeeringInv, NEW s \in Session, Cancel(s)
  PROVE  PeeringInv'
<1>1. CASE job[s].peer \notin stored
  <2>1. /\ Goto(s, "store") /\ db = Idle
        /\ UNCHANGED <<disk, job, db, queue, mgr, conns, objects, asked, early, posts, crashes>>
    BY <1>1 DEF Cancel
  <2>2. TypeOK' /\ JobInv'
    BY <2>1 DEF PeeringInv, TypeOK, JobInv, Cancel, Goto, disk, objects, sendmes
  <2>3. /\ pc[s] = "cancel" /\ pc'[s] = "store" /\ Released(s)
        /\ \A t \in Session \ {s} : pc'[t] = pc[t] /\ job'[t] = job[t]
    BY <2>1 DEF PeeringInv, TypeOK, Goto, Released, Idle, Cancel
  <2>4. QED
    BY <2>1, <2>2, <2>3, MovesKeep DEF disk, objects
<1>2. CASE job[s].peer \in stored
  <2>1. /\ pc[s] = "cancel" /\ db = Idle
        /\ db' = [step |-> "remove", by |-> s, peer |-> job[s].peer]
        /\ UNCHANGED <<disk, pc, job, queue, mgr, conns, objects, asked, early, posts, crashes>>
    BY <1>2 DEF Cancel
  <2> USE <2>1 DEF PeeringInv, disk, objects, sendmes
  <2>2. TypeOK'
    BY JobPeer DEF TypeOK
  <2>3. JobInv' /\ DbInv' /\ MgrInv' /\ QueueInv' /\ ConnectInv'
    BY DEF JobInv, DbInv, MgrInv, QueueInv, ConnectInv, Caller, Idle
  <2>4. RightInv' /\ WorkInv' /\ PeersAreComplete' /\ TwoWorkersOnlyEarly'
    BY DEF RightInv, Adding, WorkInv, PeersAreComplete, TwoWorkersOnlyEarly, Idle
  <2>5. QED
    BY <2>2, <2>3, <2>4
<1>3. QED
  BY <1>1, <1>2

LEMMA RemovePeerKeeps ==
  ASSUME PeeringInv, RemovePeer
  PROVE  PeeringInv'
<1> USE DEF RemovePeer, Send, Goto
<1> DEFINE s == db.by
           m == [cmd |-> "RemovePeer", peer |-> db.peer, from |-> None]
<1>1. s \in Session /\ pc[s] = "cancel"
  BY DEF PeeringInv, DbInv
<1>2. Harmless(m)
  BY DEF Harmless, Message, PeeringInv, TypeOK
<1>3. TypeOK'
  <2>1. queue' \in Seq(Message) /\ Len(queue') <= QueueCap
    BY <1>2, Entries, QueueType, PeeringAssumption DEF PeeringInv, Harmless
  <2>2. QED
    BY <1>1, <2>1 DEF PeeringInv, TypeOK, Message, Idle, objects, sendmes
<1>4. JobInv' /\ Released(s)
  BY <1>1 DEF PeeringInv, JobInv, Released, TypeOK
<1>5. pc'[s] = "store" /\ \A t \in Session \ {s} : pc'[t] = pc[t] /\ job'[t] = job[t]
  BY <1>1 DEF PeeringInv, TypeOK
<1>6. QED
  BY <1>1, <1>2, <1>3, <1>4, <1>5, MovesKeep DEF objects

LEMMA StoreArticleKeeps ==
  ASSUME PeeringInv, NEW s \in Session, StoreArticle(s)
  PROVE  PeeringInv'
<1> USE DEF StoreArticle, Goto
<1>1. job[s].kind = "newpeer" => job[s].peer \in Peer
  BY PeeringAssumption DEF PeeringInv, JobInv
<1>2. TypeOK' /\ JobInv'
  BY <1>1 DEF PeeringInv, TypeOK, JobInv, objects, sendmes
<1>3. /\ pc'[s] = "distribute" /\ Released(s)
      /\ \A t \in Session \ {s} : pc'[t] = pc[t] /\ job'[t] = job[t]
  BY DEF PeeringInv, TypeOK, Released, Idle
<1>4. QED
  BY <1>2, <1>3, MovesKeep DEF objects

LEMMA DistributeArticleKeeps ==
  ASSUME PeeringInv, NEW s \in Session, DistributeArticle(s)
  PROVE  PeeringInv'
<1> USE DEF DistributeArticle, Send, Goto
<1> DEFINE m == [cmd |-> "Distribute", peer |-> None, from |-> None]
<1>1. Harmless(m)
  BY DEF Harmless, Message
<1>2. TypeOK'
  <2>1. queue' \in Seq(Message) /\ Len(queue') <= QueueCap
    BY <1>1, Entries, QueueType, PeeringAssumption DEF PeeringInv, Harmless
  <2>2. QED
    BY <2>1 DEF PeeringInv, TypeOK, Message, disk, objects, sendmes
<1>3. JobInv' /\ Released(s)
  BY DEF PeeringInv, JobInv, DbInv, Released, TypeOK
<1>4. pc'[s] = "index" /\ \A t \in Session \ {s} : pc'[t] = pc[t] /\ job'[t] = job[t]
  BY DEF PeeringInv, TypeOK
<1>5. QED
  BY <1>1, <1>2, <1>3, <1>4, MovesKeep DEF disk, objects

LEMMA AddArticleToGroupKeeps ==
  ASSUME PeeringInv, NEW s \in Session, AddArticleToGroup(s)
  PROVE  PeeringInv'
<1> USE DEF AddArticleToGroup, Return, Goto
<1>1. TypeOK' /\ JobInv'
  BY DEF PeeringInv, TypeOK, JobInv, disk, objects, sendmes
<1>2. /\ pc'[s] = "idle" /\ Released(s)
      /\ \A t \in Session \ {s} : pc'[t] = pc[t] /\ job'[t] = job[t]
  BY DEF PeeringInv, TypeOK, Released, Idle
<1>3. QED
  BY <1>1, <1>2, MovesKeep DEF disk, objects

LEMMA AskConnectKeeps ==
  ASSUME PeeringInv, AskConnect
  PROVE  PeeringInv'
<1> USE DEF PeeringInv, AskConnect, Send, disk, sessions, objects, sendmes
<1> DEFINE m == [cmd |-> "Connect", peer |-> None, from |-> None]
<1>1. m \in Message
  BY DEF Message
<1>2. TypeOK'
  <2>1. queue' \in Seq(Message) /\ Len(queue') <= QueueCap
    BY <1>1, Entries, QueueType, PeeringAssumption
  <2>2. QED
    BY <2>1 DEF TypeOK, Message
<1>3. \A i \in 1 .. Len(queue') : (i \in 1 .. Len(queue) /\ queue'[i] = queue[i])
                                 \/ (i = Len(queue) + 1 /\ queue'[i] = m)
  BY <1>1, Entries, QueueType
<1>4. JobInv' /\ DbInv' /\ MgrInv'
  BY DEF JobInv, DbInv, MgrInv, Caller
<1>5. QueueInv'
  BY <1>3 DEF QueueInv, Caller
<1>6. ConnectInv'
  BY <1>3 DEF ConnectInv
<1>7. RightInv' /\ WorkInv' /\ PeersAreComplete' /\ TwoWorkersOnlyEarly'
  BY DEF RightInv, Adding, WorkInv, PeersAreComplete, TwoWorkersOnlyEarly
<1>8. QED
  BY <1>2, <1>4, <1>5, <1>6, <1>7
-----------------------------------------------------------------------------
(* Peers.Worker takes a message: what is left in its queue. *)
LEMMA Taken ==
  ASSUME PeeringInv, NEW c, Next1(c), Take
  PROVE  /\ queue # <<>> /\ 1 \in 1 .. Len(queue) /\ queue[1] = Head(queue)
         /\ queue[1] \in Message
         /\ queue' \in Seq(Message) /\ Len(queue') <= QueueCap
         /\ \A i \in 1 .. Len(queue') :
               i # 0 /\ i + 1 # 1 /\ i + 1 \in 1 .. Len(queue) /\ queue'[i] = queue[i + 1]
         /\ \A i, j \in 1 .. Len(queue') : i + 1 = j + 1 => i = j
<1>1. queue # <<>> /\ queue' = Tail(queue) /\ Len(queue) <= QueueCap
  BY DEF Next1, Take, PeeringInv, TypeOK
<1>2. queue \in Seq(Message) /\ queue' \in Seq(Message)
  BY <1>1, QueueType DEF PeeringInv
<1>3. 1 \in 1 .. Len(queue) /\ queue[1] = Head(queue) /\ Len(queue') = Len(queue) - 1
  BY <1>1, <1>2, Entries
<1>4. \A i \in 1 .. Len(queue') : i + 1 \in 1 .. Len(queue) /\ queue'[i] = queue[i + 1]
  BY <1>1, <1>2, <1>3, Entries
<1>5. QED
  BY <1>1, <1>2, <1>3, <1>4, PeeringAssumption

LEMMA HandleConnectKeeps ==
  ASSUME PeeringInv, HandleConnect
  PROVE  PeeringInv'
<1> USE DEF HandleConnect
<1>1. Next1("Connect") /\ Take /\ mgr = Waiting /\ queue' = Tail(queue)
  BY DEF Next1, Take
<1>2. TypeOK'
  BY <1>1, Taken DEF PeeringInv, TypeOK, Message, Waiting, disk, sessions, objects, sendmes
<1>3. MgrInv'
  BY <1>1 DEF MgrInv, Waiting
<1>4. ConnectInv'
  <2>1. queue[1].cmd = "Connect" /\ asked = "queued"
    BY <1>1, Taken DEF PeeringInv, ConnectInv, Next1
  <2>2. \A i \in 1 .. Len(queue') : queue'[i].cmd # "Connect"
    BY <1>1, <2>1, Taken DEF PeeringInv, ConnectInv
  <2>3. QED
    BY <2>1, <2>2 DEF ConnectInv
<1>5. QED
  BY <1>1, <1>2, <1>3, <1>4, Taken, ManagerKeeps DEF Waiting, disk, sessions, objects

LEMMA StartPeersKeeps ==
  ASSUME PeeringInv, StartPeers
  PROVE  PeeringInv'
<1> USE DEF PeeringInv, StartPeers, Start, disk, sessions, sendmes
<1>1. \A p \in Peer : workers'[p] = IF p \in peers THEN workers[p] + 1 ELSE workers[p]
  OBVIOUS
<1>2. TypeOK'
  <2>1. workers' \in [Peer -> 0 .. MaxWorkers]
    BY PeeringAssumption DEF TypeOK
  <2>2. conns' \in [Peer -> 0 .. MaxWorkers]
    BY PeeringAssumption DEF TypeOK
  <2>3. inbox' \in [Object -> 0 .. InboxCap]
    BY PeeringAssumption DEF TypeOK
  <2>4. QED
    BY <2>1, <2>2, <2>3 DEF TypeOK, Waiting
<1>3. asked = "queued"
  BY DEF ConnectInv
<1>4. JobInv' /\ DbInv' /\ MgrInv' /\ QueueInv'
  BY DEF JobInv, DbInv, MgrInv, QueueInv, Caller, Waiting, Idle
<1>5. ConnectInv'
  BY DEF ConnectInv, Waiting
<1>6. RightInv'
  BY DEF RightInv, Adding
<1>7. \A p \in Peer : workers[p] \in Nat
  BY PeeringAssumption DEF TypeOK
<1>8. WorkInv'
  BY <1>1, <1>7 DEF WorkInv, Waiting
<1>9. PeersAreComplete' /\ TwoWorkersOnlyEarly'
  BY <1>1, <1>3, <1>7 DEF PeersAreComplete, TwoWorkersOnlyEarly, WorkInv
<1>10. QED
  BY <1>2, <1>4, <1>5, <1>6, <1>8, <1>9

LEMMA DistributeKeeps ==
  ASSUME PeeringInv, HandleDistribute \/ PickPeer \/ Deliver
  PROVE  PeeringInv'
<1>1. CASE HandleDistribute
  <2> DEFINE known == {p \in Peer : conns[p] # 0}
  <2>1. /\ Next1("Distribute") /\ Take /\ mgr = Waiting /\ queue # <<>> /\ queue' = Tail(queue)
        /\ \/ mgr' = Waiting
           \/ mgr' = [Waiting EXCEPT !.cmd = "Distribute", !.todo = known]
        /\ UNCHANGED <<disk, sessions, db, conns, objects, asked, early, posts, crashes>>
    BY <1>1 DEF HandleDistribute, Next1, Take
  <2>2. known \in SUBSET Peer /\ \A p \in known : conns[p] # 0
    OBVIOUS
  <2> HIDE DEF known
  <2>3. /\ mgr' \in [cmd : {"none", "Distribute"}, peer : {None}, from : {None},
                     todo : SUBSET Peer, at : {None}]
        /\ \A p \in mgr'.todo : conns[p] # 0
    <3>1. CASE mgr' = Waiting
      BY <3>1 DEF Waiting
    <3>2. CASE mgr' = [Waiting EXCEPT !.cmd = "Distribute", !.todo = known]
      BY <2>2, <3>2 DEF Waiting
    <3>3. QED
      BY <2>1, <3>1, <3>2
  <2>4. TypeOK'
    BY <2>1, <2>3, Taken DEF PeeringInv, TypeOK, Message, disk, sessions, objects, sendmes
  <2>5. MgrInv'
    BY <2>1, <2>3 DEF MgrInv
  <2>6. ConnectInv'
    BY <2>1, <2>3, Taken DEF PeeringInv, ConnectInv
  <2>7. QED
    BY <2>1, <2>3, <2>4, <2>5, <2>6, ManagerKeeps DEF Waiting, disk, sessions, objects
<1>2. CASE PickPeer
  <2>1. PICK p \in mgr.todo : mgr' = [mgr EXCEPT !.at = p]
    BY <1>2 DEF PickPeer
  <2>2. /\ mgr.cmd = "Distribute"
        /\ UNCHANGED <<disk, sessions, db, queue, conns, objects, asked, early, posts, crashes>>
    BY <1>2 DEF PickPeer
  <2>3. TypeOK' /\ MgrInv' /\ ConnectInv' /\ mgr'.cmd = "Distribute"
    BY <2>1, <2>2 DEF PeeringInv, TypeOK, MgrInv, ConnectInv, disk, sessions, objects, sendmes
  <2>4. QED
    BY <2>2, <2>3, ManagerKeeps DEF disk, sessions, objects
<1>3. CASE Deliver
  <2> DEFINE o == <<mgr.at, conns[mgr.at]>>
  <2>1. /\ mgr.cmd = "Distribute" /\ mgr.at # None
        /\ inbox[o] < InboxCap /\ inbox' = [inbox EXCEPT ![o] = inbox[o] + 1]
        /\ mgr' = Waiting \/ mgr' = [mgr EXCEPT !.todo = mgr.todo \ {mgr.at}, !.at = None]
        /\ UNCHANGED <<disk, sessions, db, queue, conns, workers, wpc, sendmes,
                       asked, early, posts, crashes>>
    BY <1>3 DEF Deliver
  <2>2. o \in Object
    BY <2>1 DEF PeeringInv, MgrInv, TypeOK, Object
  <2>3. inbox' \in [Object -> 0 .. InboxCap]
    <3> HIDE DEF o
    <3>1. inbox \in [Object -> 0 .. InboxCap]
      BY DEF PeeringInv, TypeOK
    <3>2. inbox[o] + 1 \in 0 .. InboxCap
      BY <2>1, <2>2, <3>1, PeeringAssumption
    <3>3. QED
      BY <2>1, <3>1, <3>2
  <2>4. /\ mgr' \in [cmd : {"none", "Distribute"}, peer : Peer \union {None},
                     from : Session \union {None}, todo : SUBSET Peer, at : {None}]
        /\ \A p \in mgr'.todo : conns[p] # 0
    <3>1. CASE mgr' = Waiting
      BY <3>1 DEF Waiting
    <3>2. CASE mgr' = [mgr EXCEPT !.todo = mgr.todo \ {mgr.at}, !.at = None]
      BY <2>1, <3>2 DEF PeeringInv, TypeOK, MgrInv
    <3>3. QED
      BY <2>1, <3>1, <3>2
  <2>5. TypeOK'
    BY <2>1, <2>3, <2>4 DEF PeeringInv, TypeOK, disk, sessions, sendmes
  <2>6. MgrInv' /\ ConnectInv'
    BY <2>1, <2>4 DEF PeeringInv, MgrInv, ConnectInv
  <2>7. QED
    BY <2>1, <2>4, <2>5, <2>6, ManagerKeeps DEF disk, sessions
<1>4. QED
  BY <1>1, <1>2, <1>3

LEMMA HandleAddPeerKeeps ==
  ASSUME PeeringInv, HandleAddPeer
  PROVE  PeeringInv'
<1> DEFINE c == queue[1]
<1>1. /\ Next1("AddPeer") /\ Take /\ mgr = Waiting /\ c.cmd = "AddPeer" /\ c \in Message
      /\ UNCHANGED <<disk, db, conns, objects, asked, early, posts, crashes>>
      /\ \/ Return(c.from) /\ UNCHANGED mgr
         \/ /\ mgr' = [Waiting EXCEPT !.cmd = "AddPeer", !.peer = c.peer, !.from = c.from]
            /\ UNCHANGED sessions
  BY Taken DEF HandleAddPeer, Next1
<1>2. Caller(c)
  BY <1>1, Taken DEF PeeringInv, QueueInv
<1>3. \A i \in 1 .. Len(queue') : queue'[i].cmd = "AddPeer" =>
          Caller(queue'[i]) /\ queue'[i].from # c.from
  BY <1>1, Taken DEF PeeringInv, QueueInv
<1>4. \A i, j \in 1 .. Len(queue') :
          queue'[i].cmd = "AddPeer" /\ queue'[j].cmd = "AddPeer"
          /\ queue'[i].from = queue'[j].from => i = j
  <2> SUFFICES ASSUME NEW i \in 1 .. Len(queue'), NEW j \in 1 .. Len(queue'),
                      queue'[i].cmd = "AddPeer", queue'[j].cmd = "AddPeer",
                      queue'[i].from = queue'[j].from
               PROVE  i = j
    OBVIOUS
  <2>1. i + 1 = j + 1
    BY <1>1, Taken DEF PeeringInv, QueueInv
  <2>2. QED
    BY <1>1, <2>1, Taken
<1>5. \A i \in 1 .. Len(queue') : queue'[i].cmd = "Sendme" => queue'[i].peer \in Peer
  BY <1>1, Taken DEF PeeringInv, QueueInv
<1>6. CASE Return(c.from) /\ UNCHANGED mgr
  <2>1. \A t \in Session : pc'[t] = IF t = c.from THEN "idle" ELSE pc[t]
    BY <1>6 DEF PeeringInv, TypeOK, Return, Goto
  <2>2. \A t \in Session : t # c.from => job'[t] = job[t]
    BY <1>6 DEF PeeringInv, TypeOK, Return
  <2> USE DEF PeeringInv, disk, objects, sendmes
  <2>3. TypeOK'
    BY <1>1, <1>6, Taken DEF TypeOK, Return, Goto, Message
  <2>4. JobInv'
    BY <2>1, <2>2 DEF JobInv
  <2>5. DbInv' /\ MgrInv'
    BY <1>1, <1>2, <1>6, <2>1, <2>2 DEF DbInv, MgrInv, Caller, Waiting
  <2>6. QueueInv'
    <3>1. \A d : Caller(d) /\ d.from # c.from => Caller(d)'
      BY <2>1, <2>2 DEF Caller
    <3>2. mgr'.cmd = "none"
      BY <1>1, <1>6 DEF Waiting
    <3>3. QED
      BY <1>3, <1>4, <1>5, <3>1, <3>2 DEF QueueInv
  <2>7. ConnectInv'
    <3>1. mgr'.cmd = "none" /\ asked' = asked
      BY <1>1, <1>6 DEF Waiting
    <3>2. \A i \in 1 .. Len(queue') : queue'[i].cmd = "Connect" => asked = "queued"
      BY <1>1, Taken DEF ConnectInv
    <3>3. \A i, j \in 1 .. Len(queue') :
              queue'[i].cmd = "Connect" /\ queue'[j].cmd = "Connect" => i = j
      <4> SUFFICES ASSUME NEW i \in 1 .. Len(queue'), NEW j \in 1 .. Len(queue'),
                          queue'[i].cmd = "Connect", queue'[j].cmd = "Connect"
                   PROVE  i = j
        OBVIOUS
      <4>1. i + 1 = j + 1
        BY <1>1, Taken DEF ConnectInv
      <4>2. QED
        BY <1>1, <4>1, Taken
    <3>4. QED
      BY <3>1, <3>2, <3>3 DEF ConnectInv
  <2>8. \A t \in Session : Adding(t)' => Adding(t) /\ t # c.from
    BY <1>1, <1>2, <2>1 DEF Adding, DbInv, Caller
  <2>9. RightInv'
    BY <1>1, <1>6, <2>1, <2>2, <2>8 DEF RightInv
  <2>10. WorkInv' /\ PeersAreComplete' /\ TwoWorkersOnlyEarly'
    BY <1>1, <1>6 DEF WorkInv, PeersAreComplete, TwoWorkersOnlyEarly
  <2>11. QED
    BY <2>3, <2>4, <2>5, <2>6, <2>7, <2>9, <2>10
<1>7. CASE /\ mgr' = [Waiting EXCEPT !.cmd = "AddPeer", !.peer = c.peer, !.from = c.from]
           /\ UNCHANGED sessions
  <2> USE DEF PeeringInv, disk, sessions, objects, sendmes
  <2>1. /\ mgr'.cmd = "AddPeer" /\ mgr'.peer = c.peer /\ mgr'.from = c.from /\ mgr'.at = None
    BY <1>7 DEF Waiting
  <2>2. TypeOK'
    BY <1>1, <1>7, Taken DEF TypeOK, Message, Waiting
  <2>3. JobInv' /\ DbInv' /\ MgrInv'
    BY <1>1, <1>2, <1>7, <2>1 DEF JobInv, DbInv, MgrInv, Caller, Waiting
  <2>4. QueueInv'
    BY <1>3, <1>4, <1>5, <1>7, <2>1 DEF QueueInv, Caller
  <2>5. ConnectInv'
    BY <1>1, <2>1, Taken DEF ConnectInv
  <2>6. RightInv'
    BY <1>1, <1>7 DEF RightInv, Adding, Waiting
  <2>7. WorkInv' /\ PeersAreComplete' /\ TwoWorkersOnlyEarly'
    BY <1>1, <2>1 DEF WorkInv, PeersAreComplete, TwoWorkersOnlyEarly
  <2>8. QED
    BY <2>2, <2>3, <2>4, <2>5, <2>6, <2>7
<1>8. QED
  BY <1>1, <1>6, <1>7

LEMMA AddPeerConfigKeeps ==
  ASSUME PeeringInv, AddPeerConfig
  PROVE  PeeringInv'
<1> USE DEF PeeringInv, AddPeerConfig, sessions, objects, sendmes
<1>1. Caller(mgr) /\ mgr.peer \in Peer
  BY JobPeer DEF MgrInv, Caller
<1>2. TypeOK'
  BY <1>1 DEF TypeOK
<1>3. JobInv' /\ DbInv' /\ MgrInv' /\ QueueInv' /\ ConnectInv'
  BY DEF JobInv, DbInv, MgrInv, QueueInv, ConnectInv, Caller
<1>4. RightInv'
  BY DEF RightInv, Adding, Idle
<1>5. WorkInv' /\ PeersAreComplete' /\ TwoWorkersOnlyEarly'
  BY DEF WorkInv, PeersAreComplete, TwoWorkersOnlyEarly
<1>6. QED
  BY <1>2, <1>3, <1>4, <1>5

LEMMA AddPeerRowKeeps ==
  ASSUME PeeringInv, AddPeerRow
  PROVE  PeeringInv'
<1> USE DEF PeeringInv, AddPeerRow, sessions, objects, sendmes
<1> DEFINE p == mgr.peer
           s == mgr.from
<1>1. mgr.cmd = "AddPeer" /\ p = db.peer /\ p \in cursors /\ p \in Peer
  BY DEF DbInv, TypeOK
<1>2. s \in Session /\ pc[s] = "waitadd" /\ job[s].peer = p
  BY <1>1 DEF MgrInv, Caller
<1>3. p \in groups \intersect ready /\ p \notin peers
  BY <1>1, <1>2 DEF RightInv, Adding
<1>4. /\ mgr'.cmd = "NewPeer" /\ mgr'.peer = p /\ mgr'.from = s
      /\ mgr'.at = mgr.at /\ mgr'.todo = mgr.todo
  BY DEF TypeOK
<1>5. TypeOK'
  BY <1>1 DEF TypeOK, Idle
<1>6. JobInv' /\ DbInv' /\ MgrInv'
  BY <1>1, <1>2, <1>4 DEF JobInv, DbInv, MgrInv, Caller, Idle
<1>7. QueueInv' /\ ConnectInv'
  BY <1>1, <1>4 DEF QueueInv, ConnectInv, Caller
<1>8. \A t \in Session : Adding(t)' <=> Adding(t)
  BY DEF Adding, Idle
<1>9. RightInv'
  <2>1. ASSUME NEW t \in Session, Adding(t), job[t].peer \in peers'
        PROVE  t = s
    <3>1. job[t].peer = p
      BY <1>1, <2>1 DEF RightInv
    <3>2. QED
      BY <1>2, <2>1, <3>1 DEF RightInv, Adding
  <2>2. QED
    BY <1>4, <1>8, <2>1 DEF RightInv
<1>10. WorkInv'
  BY <1>1, <1>3, <1>4 DEF WorkInv
<1>11. PeersAreComplete' /\ TwoWorkersOnlyEarly'
  BY <1>1, <1>3 DEF PeersAreComplete, TwoWorkersOnlyEarly
<1>12. QED
  BY <1>5, <1>6, <1>7, <1>9, <1>10, <1>11

LEMMA NewPeerKeeps ==
  ASSUME PeeringInv, NewPeer
  PROVE  PeeringInv'
<1> USE DEF PeeringInv, NewPeer, Start, Goto, disk, sendmes
<1> DEFINE p == mgr.peer
           s == mgr.from
<1>1. s \in Session /\ pc[s] = "waitadd" /\ job[s].peer = p /\ p \in Peer
  BY JobPeer DEF MgrInv, Caller
<1>2. workers[p] = 0 /\ \A r \in Peer : workers'[r] = IF r = p THEN 1 ELSE workers[r]
  BY <1>1 DEF WorkInv
<1>3. \A t \in Session : pc'[t] = IF t = s THEN "store" ELSE pc[t]
  BY DEF TypeOK
<1>4. mgr'.cmd = "none" /\ mgr'.at = None
  BY DEF Waiting
<1>5. TypeOK'
  <2>1. workers' \in [Peer -> 0 .. MaxWorkers]
    BY PeeringAssumption DEF TypeOK
  <2>2. conns' \in [Peer -> 0 .. MaxWorkers]
    BY PeeringAssumption DEF TypeOK
  <2>3. inbox' \in [Object -> 0 .. InboxCap]
    BY PeeringAssumption DEF TypeOK
  <2>4. QED
    BY <1>1, <2>1, <2>2, <2>3 DEF TypeOK, Waiting
<1>6. JobInv'
  <2>1. job' = job
    OBVIOUS
  <2> HIDE DEF NewPeer
  <2>2. QED
    BY <1>1, <1>3, <2>1 DEF JobInv
<1>7. DbInv' /\ MgrInv'
  BY <1>1, <1>3, <1>4 DEF DbInv, MgrInv
<1>8. QueueInv'
  <2>1. \A c : Caller(c) /\ c.from # s => Caller(c)'
    BY <1>3 DEF Caller
  <2>2. QED
    BY <1>4, <2>1 DEF QueueInv
<1>9. ConnectInv'
  BY <1>4 DEF ConnectInv
<1>10. \A t \in Session : Adding(t)' => Adding(t) /\ t # s
  BY <1>1, <1>3 DEF Adding, DbInv
<1>11. RightInv'
  BY <1>3, <1>10 DEF RightInv
<1>12. p \in peers
  BY DEF MgrInv
<1>13. WorkInv'
  BY <1>1, <1>2, <1>4, <1>12 DEF WorkInv
<1>14. PeersAreComplete' /\ TwoWorkersOnlyEarly'
  BY <1>1, <1>2 DEF PeersAreComplete, TwoWorkersOnlyEarly
<1>15. QED
  BY <1>5, <1>6, <1>7, <1>8, <1>9, <1>11, <1>13, <1>14

LEMMA HandleSendmeKeeps ==
  ASSUME PeeringInv, HandleSendme \/ DeliverSendme
  PROVE  PeeringInv'
<1>1. CASE HandleSendme
  <2> DEFINE p == queue[1].peer
  <2>1. /\ Next1("Sendme") /\ Take /\ mgr = Waiting /\ queue # <<>> /\ queue' = Tail(queue)
        /\ queue[1].cmd = "Sendme" /\ conns[p] # 0
        /\ mgr' = [Waiting EXCEPT !.cmd = "Sendme", !.peer = p]
        /\ UNCHANGED <<disk, sessions, db, conns, objects, asked, early, posts, crashes>>
    BY <1>1, Taken DEF HandleSendme, Next1, Take
  <2>2. p \in Peer
    BY <2>1, Taken DEF PeeringInv, QueueInv
  <2>3. /\ mgr' \in [cmd : {"Sendme"}, peer : Peer, from : {None}, todo : {{}}, at : {None}]
        /\ mgr'.peer = p
    BY <2>1, <2>2 DEF Waiting
  <2>4. TypeOK'
    BY <2>1, <2>3, Taken DEF PeeringInv, TypeOK, Message, disk, sessions, objects, sendmes
  <2>5. MgrInv'
    BY <2>1, <2>2, <2>3 DEF MgrInv
  <2>6. ConnectInv'
    BY <2>1, <2>3, Taken DEF PeeringInv, ConnectInv
  <2>7. QED
    BY <2>1, <2>3, <2>4, <2>5, <2>6, ManagerKeeps DEF Waiting, disk, sessions, objects
<1>2. CASE DeliverSendme
  <2> DEFINE o == <<mgr.peer, conns[mgr.peer]>>
  <2>1. /\ mgr.cmd = "Sendme" /\ mgr' = Waiting
        /\ inbox[o] < InboxCap /\ inbox' = [inbox EXCEPT ![o] = inbox[o] + 1]
        /\ told' = [told EXCEPT ![o] = IF told[o] = 0 THEN inbox[o] + 1 ELSE told[o]]
        /\ UNCHANGED <<disk, sessions, db, queue, conns, workers, wpc, serving,
                       asked, early, posts, crashes>>
    BY <1>2 DEF DeliverSendme
  <2>2. o \in Object
    BY <2>1 DEF PeeringInv, MgrInv, TypeOK, Object
  <2>3. inbox' \in [Object -> 0 .. InboxCap] /\ told' \in [Object -> 0 .. InboxCap]
    <3> HIDE DEF o
    <3>1. inbox \in [Object -> 0 .. InboxCap] /\ told \in [Object -> 0 .. InboxCap]
      BY DEF PeeringInv, TypeOK
    <3>2. inbox[o] + 1 \in 0 .. InboxCap /\ told[o] \in 0 .. InboxCap
      BY <2>1, <2>2, <3>1, PeeringAssumption
    <3>3. QED
      BY <2>1, <3>1, <3>2
  <2>4. TypeOK'
    BY <2>1, <2>3 DEF PeeringInv, TypeOK, Waiting, disk, sessions
  <2>5. MgrInv' /\ ConnectInv'
    BY <2>1 DEF PeeringInv, MgrInv, ConnectInv, Waiting
  <2>6. QED
    BY <2>1, <2>4, <2>5, ManagerKeeps DEF Waiting, disk, sessions
<1>3. QED
  BY <1>1, <1>2
-----------------------------------------------------------------------------
(* Peer.Worker. *)
LEMMA RoundKeeps ==
  ASSUME PeeringInv, NEW o \in Object, Tick(o) \/ Round(o)
  PROVE  PeeringInv'
<1> DEFINE Rest == /\ UNCHANGED <<disk, sessions, db, queue, mgr, conns, workers>>
                   /\ UNCHANGED <<asked, early, posts, crashes>>
<1>1. /\ inbox \in [Object -> 0 .. InboxCap] /\ wpc \in [Object -> {"idle", "net", "db"}]
      /\ told \in [Object -> 0 .. InboxCap] /\ serving \subseteq Object
      /\ inbox[o] \in Nat /\ inbox[o] <= InboxCap /\ told[o] \in Nat /\ told[o] <= InboxCap
      /\ InboxCap \in Nat /\ InboxCap >= 1
  BY PeeringAssumption DEF PeeringInv, TypeOK
<1>2. /\ inbox' \in [Object -> 0 .. InboxCap] /\ wpc' \in [Object -> {"idle", "net", "db"}]
      /\ told' \in [Object -> 0 .. InboxCap] /\ serving' \subseteq Object
      /\ Rest
  <2>1. CASE Tick(o)
    BY <1>1, <2>1 DEF Tick, sendmes
  <2>2. CASE Receive(o)
    <3>1. inbox[o] - 1 \in 0 .. InboxCap /\ (told[o] # 0 => told[o] - 1 \in 0 .. InboxCap)
      BY <1>1, <2>2 DEF Receive
    <3>2. /\ inbox' = [inbox EXCEPT ![o] = inbox[o] - 1] /\ wpc' = [wpc EXCEPT ![o] = "net"]
          /\ told' = [told EXCEPT ![o] = IF told[o] = 0 THEN 0 ELSE told[o] - 1]
          /\ serving' = IF told[o] = 1 THEN serving \union {o} ELSE serving
          /\ Rest
      BY <2>2 DEF Receive
    <3>3. QED
      BY <1>1, <3>1, <3>2
  <2>3. CASE Network(o) \/ Databases(o)
    BY <1>1, <2>3 DEF Network, Databases, sendmes
  <2>4. QED
    BY <2>1, <2>2, <2>3 DEF Round
<1>3. /\ groups' = groups /\ ready' = ready /\ cursors' = cursors /\ peers' = peers
      /\ stored' = stored /\ pc' = pc /\ job' = job /\ db' = db /\ queue' = queue
      /\ mgr' = mgr /\ conns' = conns /\ workers' = workers /\ asked' = asked
      /\ early' = early /\ posts' = posts /\ crashes' = crashes
  BY <1>2 DEF disk, sessions
<1>4. TypeOK'
  BY <1>2, <1>3 DEF PeeringInv, TypeOK
<1>5. QED
  BY <1>3, <1>4, RoundsKeep

LEMMA DeathKeeps ==
  ASSUME PeeringInv,
         Crash \/ HandleRemovePeer \/ HandleSendmePanics \/ \E o \in Object : SendmePanics(o)
  PROVE  PeeringInv'
<1>1. Die /\ crashes' \in 0 .. MaxCrash
  BY PeeringAssumption
  DEF Crash, HandleRemovePeer, HandleSendmePanics, SendmePanics, PeeringInv, TypeOK
<1>2. QED
  BY <1>1, DieKeeps

LEMMA InductivePeering == PeeringInv /\ [Next]_vars => PeeringInv'
<1> SUFFICES ASSUME PeeringInv, [Next]_vars
             PROVE  PeeringInv'
  OBVIOUS
<1>1. ASSUME NEW s \in Session, SessionStep(s)
      PROVE  PeeringInv'
  BY <1>1, NewGroupKeeps, AddPeerKeeps, CancelKeeps, SendmeKeeps, StoreArticleKeeps,
     DistributeArticleKeeps, AddArticleToGroupKeeps DEF SessionStep
<1>2. CASE ServerStep
  BY <1>2, GroupTablesKeeps, RemovePeerKeeps, AddPeerRowKeeps DEF ServerStep
<1>3. CASE ManagerStep
  BY <1>3, HandleConnectKeeps, StartPeersKeeps, DistributeKeeps, HandleAddPeerKeeps,
     AddPeerConfigKeeps, NewPeerKeeps, HandleSendmeKeeps, DeathKeeps DEF ManagerStep
<1>4. ASSUME NEW o \in Object, Tick(o) \/ Round(o) \/ SendmePanics(o)
      PROVE  PeeringInv'
  BY <1>4, RoundKeeps, DeathKeeps
<1>5. CASE UNCHANGED vars
  <2>1. TypeOK'
    BY <1>5 DEF PeeringInv, TypeOK, vars, disk, sessions, objects, sendmes
  <2>2. QED
    BY <1>5, <2>1, RoundsKeep DEF vars, disk, sessions, objects
<1>6. QED
  BY <1>1, <1>2, <1>3, <1>4, <1>5, SubmitKeeps, AskConnectKeeps, DeathKeeps DEF Next

(* What the other theorems rest on. *)
THEOREM PeeringInvariance == Spec => []PeeringInv
<1>1. QED
  BY InitialPeering, InductivePeering, PTL DEF Spec

(* Every reachable state is well typed: no channel ever holds more than its
   capacity, and no Peer object is beyond those that were made. *)
THEOREM TypeCorrectPeering == Spec => []TypeOK
<1>1. PeeringInv => TypeOK
  BY DEF PeeringInv
<1>2. QED
  BY <1>1, PeeringInvariance, PTL

(* After any crash, a peer of the peers table has a whole group and a
   cursor. *)
THEOREM PeersComplete == Spec => []PeersAreComplete
<1>1. PeeringInv => PeersAreComplete
  BY DEF PeeringInv
<1>2. QED
  BY <1>1, PeeringInvariance, PTL

(* A peer gets two workers in one life of the process only if it was added
   before the start-up Connect was handled, and never three. *)
THEOREM TwoWorkersOnlyIfEarly == Spec => []TwoWorkersOnlyEarly
<1>1. PeeringInv => TwoWorkersOnlyEarly
  BY DEF PeeringInv
<1>2. QED
  BY <1>1, PeeringInvariance, PTL
=============================================================================
