-------------------------------- MODULE Feed --------------------------------
(***************************************************************************)
(* The peer feeds of internal/peering: for every peer a worker goroutine   *)
(* walks the article store by number, offers each article the peer may     *)
(* read and has not been through already, and records the number it has    *)
(* got to (LastMessage, in the peer's group database).  The store is       *)
(* Spool, which Store implements.                                          *)
(*                                                                         *)
(* A worker makes one round (Connect, then SendMessages, which handles one *)
(* article) for every command it receives; its five-second ticker sends    *)
(* one when none is queued, so a round is always possible here.            *)
(***************************************************************************)
EXTENDS Spool

CONSTANTS
    Worker,      \* worker goroutines
    Peer,        \* peers, by tor id
    None,        \* no article
    PeerOf,      \* PeerOf[w]: the peer worker w feeds
    Access,      \* Access[p][m]: what GetPerms says of p and m's groups
    OnPath,      \* OnPath[p]: the articles whose Path names p
    Withdrawn,   \* the articles a cancel may take away
    Damaged,     \* the articles whose file may be missing or torn
    MaxBreaks,   \* bound: how often a connection breaks
    MaxCrash,    \* bound: how often the process dies by itself
    MaxFails     \* bound: how often the cursor cannot be stored

ASSUME FeedAssumption ==
    /\ None \notin Msg
    /\ PeerOf \in [Worker -> Peer]
    /\ Access \in [Peer -> [Msg -> {"read", "deny", "nil"}]]
    /\ OnPath \in [Peer -> SUBSET Msg]
    /\ MaxBreaks \in Nat /\ MaxCrash \in Nat /\ MaxFails \in Nat

VARIABLES
    torn,     \* messages whose file stops within the headers
    cursor,   \* cursor[p]: LastMessage in p's group database
    conn,     \* conn[w]: Peer.Conn, and whether it still works
    pc,       \* pc[w]: where worker w is in SendMessages
    seen,     \* seen[w]: the lastMessage it has read
    art,      \* art[w]: the article it has fetched
    offered,  \* offered[p]: articles ever posted towards p
    recent,   \* recent[p]: those posted since the process started
    got,      \* got[p]: articles that have reached p
    crossed,  \* crossed[w]: another worker of that peer is, or was, in a
              \* round during this one of w
    doubt,    \* doubt[p]: articles of recent[p] the cursor does not count
    breaks, crashes, fails

history == <<offered, recent, got>>
doubts == <<crossed, doubt, fails>>
vars == <<spoolVars, torn, cursor, conn, pc, seen, art, history, doubts, breaks, crashes>>

TypeOK ==
    /\ SpoolTypeOK
    /\ torn \in SUBSET Msg
    /\ cursor \in [Peer -> {0} \union Number]
    /\ conn \in [Worker -> {"nil", "up", "dead"}]
    /\ pc \in [Worker -> {"idle", "fetch", "filter", "post", "commit"}]
    /\ seen \in [Worker -> {0} \union Number]
    /\ art \in [Worker -> Msg \union {None}]
    /\ offered \in [Peer -> SUBSET Msg]
    /\ recent \in [Peer -> SUBSET Msg]
    /\ got \in [Peer -> SUBSET Msg]
    /\ crossed \in [Worker -> BOOLEAN]
    /\ doubt \in [Peer -> SUBSET Msg]
    /\ breaks \in 0 .. MaxBreaks
    /\ crashes \in 0 .. MaxCrash
    /\ fails \in 0 .. MaxFails

Init ==
    /\ SpoolInit
    /\ torn = {}
    /\ cursor = [p \in Peer |-> 0]
    /\ conn = [w \in Worker |-> "nil"]
    /\ pc = [w \in Worker |-> "idle"]
    /\ seen = [w \in Worker |-> 0]
    /\ art = [w \in Worker |-> None]
    /\ offered = [p \in Peer |-> {}]
    /\ recent = [p \in Peer |-> {}]
    /\ got = [p \in Peer |-> {}]
    /\ crossed = [w \in Worker |-> FALSE]
    /\ doubt = [p \in Peer |-> {}]
    /\ breaks = 0 /\ crashes = 0 /\ fails = 0
-----------------------------------------------------------------------------
(* The store. *)

Arrive(m) ==
    /\ Accept(m)
    /\ m \in readable' \/ m \in Damaged
    /\ torn' \in IF m \in readable' THEN {torn} ELSE {torn, torn \union {m}}
    /\ UNCHANGED <<cursor, conn, pc, seen, art, history, doubts, breaks, crashes>>

Cancel(m) ==
    /\ m \in Withdrawn /\ Withdraw(m)
    /\ UNCHANGED <<torn, cursor, conn, pc, seen, art, history, doubts, breaks, crashes>>
-----------------------------------------------------------------------------
(* The worker. *)

(* Variant: LastMessage is kept in memory only. *)
DieForgetting ==
    /\ conn' = [w \in Worker |-> "nil"]
    /\ pc' = [w \in Worker |-> "idle"]
    /\ seen' = [w \in Worker |-> 0]
    /\ art' = [w \in Worker |-> None]
    /\ recent' = [p \in Peer |-> {}]
    /\ crossed' = [w \in Worker |-> FALSE]
    /\ doubt' = [p \in Peer |-> {}]
    /\ cursor' = [p \in Peer |-> 0]
    /\ UNCHANGED <<spoolVars, torn, offered, got, breaks, fails>>

(* The process dies, by a panic or otherwise, and is started again: peers
   are connected anew from the peers table. *)
Die ==
    /\ conn' = [w \in Worker |-> "nil"]
    /\ pc' = [w \in Worker |-> "idle"]
    /\ seen' = [w \in Worker |-> 0]
    /\ art' = [w \in Worker |-> None]
    /\ recent' = [p \in Peer |-> {}]
    /\ crossed' = [w \in Worker |-> FALSE]
    /\ doubt' = [p \in Peer |-> {}]
    /\ UNCHANGED <<spoolVars, torn, cursor, offered, got, breaks, fails>>

(* Connect: only a nil Conn is dialled; when the dial or the handshake
   fails, SendMessages returns at once and the round has changed nothing. *)
Connect(w) ==
    /\ pc[w] = "idle" /\ conn[w] = "nil"
    /\ conn' = [conn EXCEPT ![w] = "up"]
    /\ UNCHANGED <<spoolVars, torn, cursor, pc, seen, art, history, doubts, breaks, crashes>>

(* The other workers of the peer of w that are in a round. *)
Alongside(w) == {v \in Worker \ {w} : PeerOf[v] = PeerOf[w] /\ pc[v] # "idle"}

(* SendMessages with a Conn: GroupConfigGetInt64 of LastMessage.  Should
   that fail, or a read after it, the round ends and has changed nothing. *)
ReadCursor(w) ==
    /\ pc[w] = "idle" /\ conn[w] # "nil"
    /\ pc' = [pc EXCEPT ![w] = "fetch"]
    /\ seen' = [seen EXCEPT ![w] = cursor[PeerOf[w]]]
    /\ crossed' = [v \in Worker |-> IF v = w THEN Alongside(w) # {}
                                    ELSE crossed[v] \/ v \in Alongside(w)]
    /\ UNCHANGED <<spoolVars, torn, cursor, conn, art, history, doubt, breaks, crashes, fails>>

(* getNextArticle chooses the row and then reads its file: a missing file
   is an error, and the round ends with the cursor where it was. *)
Fetch(w) ==
    /\ pc[w] = "fetch"
    /\ \/ /\ After(seen[w]) = {}
          /\ pc' = [pc EXCEPT ![w] = "idle"]
          /\ UNCHANGED art
       \/ \E m \in Msg \ torn :
          /\ IsNext(m, seen[w])
          /\ IF m \in readable
             THEN /\ pc' = [pc EXCEPT ![w] = "filter"]
                  /\ art' = [art EXCEPT ![w] = m]
             ELSE /\ pc' = [pc EXCEPT ![w] = "idle"]
                  /\ UNCHANGED art
    /\ UNCHANGED <<spoolVars, torn, cursor, conn, seen, history, doubts, breaks, crashes>>

(* A torn file: getArticleBySignature indexes past what it has split. *)
FetchPanics(w) ==
    /\ pc[w] = "fetch"
    /\ \E m \in torn : IsNext(m, seen[w])
    /\ Die
    /\ UNCHANGED crashes

Skipped(p, m) == m \in OnPath[p] \/ Access[p][m] = "deny"

(* Variant: an article that is skipped does not move the cursor. *)
FilterStays(w) ==
    /\ pc[w] = "filter"
    /\ Access[PeerOf[w]][art[w]] = "read" \/ Skipped(PeerOf[w], art[w])
    /\ pc' = [pc EXCEPT ![w] =
                IF Skipped(PeerOf[w], art[w]) THEN "idle" ELSE "post"]
    /\ UNCHANGED <<spoolVars, torn, cursor, conn, seen, art, history, doubts, breaks, crashes>>

(* The Path and permission checks. *)
Filter(w) ==
    /\ pc[w] = "filter"
    /\ \/ /\ Skipped(PeerOf[w], art[w])
          /\ pc' = [pc EXCEPT ![w] = "commit"]
       \/ /\ ~Skipped(PeerOf[w], art[w])
          /\ Access[PeerOf[w]][art[w]] = "read"
          /\ pc' = [pc EXCEPT ![w] = "post"]
    /\ UNCHANGED <<spoolVars, torn, cursor, conn, seen, art, history, doubts, breaks, crashes>>

(* perms.Read of a group without a permission row for the peer or for
   "group": GetPerms has returned nil. *)
FilterPanics(w) ==
    /\ pc[w] = "filter"
    /\ art[w] \notin OnPath[PeerOf[w]]
    /\ Access[PeerOf[w]][art[w]] = "nil"
    /\ Die
    /\ UNCHANGED crashes

(* Client.Post: on a dead connection it fails, and the failure is treated
   like a success.  Conn stays what it is. *)
Post(w) ==
    /\ pc[w] = "post"
    /\ offered' = [offered EXCEPT ![PeerOf[w]] = @ \union {art[w]}]
    /\ recent' = [recent EXCEPT ![PeerOf[w]] = @ \union {art[w]}]
    /\ got' = IF conn[w] = "up"
              THEN [got EXCEPT ![PeerOf[w]] = @ \union {art[w]}]
              ELSE got
    /\ doubt' = [doubt EXCEPT ![PeerOf[w]] = @ \ {art[w]}]
    /\ pc' = [pc EXCEPT ![w] = "commit"]
    /\ UNCHANGED <<spoolVars, torn, cursor, conn, seen, art, crossed, breaks, crashes, fails>>

(* The articles of recent[p] above n that the cursor counted, and no longer
   will. *)
Uncounted(p, n) == {m \in recent[p] : n < num[m] /\ num[m] <= cursor[p]}

(* Variant: the cursor waits for a connection that works. *)
CommitIfUp(w) ==
    /\ pc[w] = "commit"
    /\ cursor' = IF conn[w] = "up"
                 THEN [cursor EXCEPT ![PeerOf[w]] = num[art[w]]]
                 ELSE cursor
    /\ pc' = [pc EXCEPT ![w] = "idle"]
    /\ art' = [art EXCEPT ![w] = None]
    /\ UNCHANGED <<spoolVars, torn, conn, seen, history, doubts, breaks, crashes>>

(* GroupConfigSet of LastMessage, to the number this worker has got to. *)
Commit(w) ==
    /\ pc[w] = "commit"
    /\ cursor' = [cursor EXCEPT ![PeerOf[w]] = num[art[w]]]
    /\ doubt' = [doubt EXCEPT ![PeerOf[w]] = @ \union Uncounted(PeerOf[w], num[art[w]])]
    /\ pc' = [pc EXCEPT ![w] = "idle"]
    /\ art' = [art EXCEPT ![w] = None]
    /\ UNCHANGED <<spoolVars, torn, conn, seen, history, crossed, breaks, crashes, fails>>

(* GroupConfigSet fails, after a skip or a post: SendMessages returns and
   the cursor stays, so the next round takes the same article. *)
CommitFails(w) ==
    /\ pc[w] = "commit" /\ fails < MaxFails
    /\ fails' = fails + 1
    /\ doubt' = [doubt EXCEPT ![PeerOf[w]] = @ \union {art[w]}]
    /\ pc' = [pc EXCEPT ![w] = "idle"]
    /\ art' = [art EXCEPT ![w] = None]
    /\ UNCHANGED <<spoolVars, torn, cursor, conn, seen, history, crossed, breaks, crashes>>
-----------------------------------------------------------------------------
(* The network drops a connection: nobody tells Peer.Conn. *)
Break(w) ==
    /\ conn[w] = "up" /\ breaks < MaxBreaks
    /\ conn' = [conn EXCEPT ![w] = "dead"]
    /\ breaks' = breaks + 1
    /\ UNCHANGED <<spoolVars, torn, cursor, pc, seen, art, history, doubts, crashes>>

Crash ==
    /\ crashes < MaxCrash
    /\ Die
    /\ crashes' = crashes + 1

SendMessages(w) ==
    \/ ReadCursor(w) \/ Fetch(w) \/ FetchPanics(w)
    \/ Filter(w) \/ FilterPanics(w) \/ Post(w) \/ Commit(w) \/ CommitFails(w)

Next ==
    \/ \E m \in Msg : Arrive(m) \/ Cancel(m)
    \/ \E w \in Worker : Connect(w) \/ SendMessages(w) \/ Break(w)
    \/ Crash

Spec == Init /\ [][Next]_vars

(* The ticker gives every worker a round again and again, and the peer can
   be reached in the end; nothing need arrive, break or die. *)
Fairness == \A w \in Worker : WF_vars(Connect(w)) /\ WF_vars(SendMessages(w))

FairSpec == Spec /\ Fairness
-----------------------------------------------------------------------------
(***************************************************************************)
(* Properties.                                                             *)
(***************************************************************************)

(* The cursor of a peer goes back only if a second worker of that peer was
   in a round at the same time: one worker alone never takes it back, over
   breaks, deaths and writes that fail. *)
CursorNeverBack ==
    [][\A p \in Peer : cursor'[p] < cursor[p] =>
          \E w \in Worker : /\ PeerOf[w] = p /\ crossed[w]
                            /\ pc[w] = "commit" /\ pc'[w] = "idle"]_vars

(* Nothing at or below a peer's cursor was lost on the way: each such
   article was posted towards the peer, or the peer had it already, or may
   not read it.  New articles never appear below a cursor. *)
NothingSkipped ==
    \A p \in Peer, m \in Msg :
        num[m] # 0 /\ num[m] <= cursor[p] => m \in offered[p] \/ Skipped(p, m)

(* Between two starts of the process an article is posted towards a peer
   again only if the cursor does not count it, because it could not be
   stored or a second worker has taken it back, or if such a worker is in
   its round, or was, during this one. *)
OfferedOncePerLife ==
    [][\A w \in Worker :
          pc[w] = "post" /\ pc'[w] = "commit" =>
              \/ art[w] \notin recent[PeerOf[w]] \ doubt[PeerOf[w]]
              \/ crossed[w]]_vars

(* What holds the feed of p up before it has passed m: an article at or
   below m whose file is gone, *)
Blocked(p, m) == \E k \in Msg \ readable : cursor[p] < num[k] /\ num[k] <= num[m]

(* and what ends the process again after every restart: the next article of
   some peer has a torn file, or permissions that are nil. *)
Poisoned ==
    \E p \in Peer, k \in Msg :
        /\ IsNext(k, cursor[p])
        /\ k \in torn \/ (k \notin OnPath[p] /\ Access[p][k] = "nil")

(* Every article a peer may read, and that did not come through it, gets to
   that peer; unless an article before it cannot be read any more, an
   article ends the process at each attempt of some feed (which stops all of
   them), or the connection has broken, after which articles count as sent
   that are not. *)
Delivered ==
    \A p \in Peer, m \in Msg :
        m \in readable /\ ~Skipped(p, m) ~>
            \/ m \in got[p]
            \/ m \in offered[p] /\ breaks > 0
            \/ Blocked(p, m) \/ Poisoned
=============================================================================
