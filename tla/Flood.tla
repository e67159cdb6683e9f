------------------------------- MODULE Flood -------------------------------
(***************************************************************************)
(* The network: nodes that flood what they have accepted to their peers.   *)
(* Each node is the store of Store.tla, as the sequence of what it has     *)
(* accepted, and one feed of Feed.tla for every peer, as how much of that  *)
(* sequence the feed has dealt with.  A feed gives every article one       *)
(* chance: whatever the peer answers, the article counts as sent.          *)
(*                                                                         *)
(* What a node accepts depends on the node it comes from, on the groups it *)
(* has by then, and on nothing else: a newgroup message makes the group    *)
(* even where the message itself is then refused for want of permission.   *)
(* And a feed that can not get past an article does not skip it.           *)
(***************************************************************************)
EXTENDS Naturals, Sequences, FiniteSets, SequencesExt

CONSTANTS
    Node,
    Peered,    \* the pairs of nodes that are peers of each other
    Group,
    Owner,     \* Owner[g]: the node in the first label of the name
    MayRead,   \* MayRead[g], MayPost[g]: what the card of g's newgroup
    MayPost,   \*   message says, the same at every node that has it
    NoRow,     \* NoRow[g]: the nodes for which the card has no row, and no
               \*   row for the rest either: their permissions are nil
    Article,   \* messages
    Origin,    \* Origin[a]
    Groups,    \* Groups[a]: Newsgroups
    Creates,   \* Creates[a]: the group a newgroup message makes, or NoGroup
    NoGroup,
    MaxFaults  \* bound: offers that fail or are not counted, files lost

ASSUME FloodAssumption ==
    /\ Peered \subseteq Node \X Node
    /\ \A e \in Peered : e[1] # e[2] /\ <<e[2], e[1]>> \in Peered
    /\ Owner \in [Group -> Node]
    /\ MayRead \in [Group -> SUBSET Node] /\ MayPost \in [Group -> SUBSET Node]
    /\ \A g \in Group : Owner[g] \in MayRead[g] \intersect MayPost[g]
    /\ NoRow \in [Group -> SUBSET Node]
    /\ \A g \in Group : NoRow[g] \subseteq MayPost[g] \ MayRead[g]
    /\ Origin \in [Article -> Node] /\ Groups \in [Article -> SUBSET Group]
    /\ NoGroup \notin Group /\ Creates \in [Article -> Group \union {NoGroup}]
    /\ \A a \in Article : Creates[a] # NoGroup =>
            Groups[a] = {Creates[a]} /\ Origin[a] = Owner[Creates[a]]
    /\ MaxFaults \in Nat

VARIABLES
    spool,   \* spool[n]: what n has accepted, in order: [art, path]
    groups,  \* groups[n]: the groups n has
    cursor,  \* cursor[<<n, p>>]: how much of spool[n] p has been offered
    lost,    \* <<n, p, a>>: a was offered to p, which did not get it
    gone,    \* <<n, a>>: n has the row of a and no file
    torn,    \* <<n, a>>: n has the row of a and a part of its file
    faults   \* so far

files == <<gone, torn>>
vars == <<spool, groups, cursor, lost, files, faults>>

Init ==
    /\ spool = [n \in Node |-> <<>>]
    /\ groups = [n \in Node |-> {}]
    /\ cursor = [e \in Peered |-> 0]
    /\ lost = {} /\ gone = {} /\ torn = {} /\ faults = 0

Fault == faults < MaxFaults /\ faults' = faults + 1

Has(n) == {spool[n][i].art : i \in DOMAIN spool[n]}
-----------------------------------------------------------------------------
(* Post, at node n, in a session of node from. *)

(* Variant: the article may be posted by anyone. *)
AcceptsFromAll(n, from, a) ==
    /\ a \notin Has(n)
    /\ Creates[a] \notin groups[n]
    /\ Groups[a] \intersect (groups[n] \union {Creates[a]}) # {}

(* A newgroup message for a group that is there fails; the rest needs a
   group in which the session may post, and a new Message-Id.  Here, nil
   permissions permit. *)
Accepts(n, from, a) ==
    /\ a \notin Has(n)
    /\ Creates[a] \notin groups[n]
    /\ \E g \in Groups[a] \intersect (groups[n] \union {Creates[a]}) : from \in MayPost[g]

(* Variant: INSERT OR REPLACE, an article that comes again gets a new row. *)
PostReplaces(n, from, a, path) ==
    /\ groups' = [groups EXCEPT ![n] = @ \union ({Creates[a]} \ {NoGroup})]
    /\ spool' = IF a \in Has(n) \/ Accepts(n, from, a)
                THEN [spool EXCEPT ![n] = Append(SelectSeq(@, LAMBDA x : x.art # a),
                                                 [art |-> a, path |-> <<n>> \o path])]
                ELSE spool

Post(n, from, a, path) ==
    /\ groups' = [groups EXCEPT ![n] = @ \union ({Creates[a]} \ {NoGroup})]
    /\ spool' = IF Accepts(n, from, a)
                THEN [spool EXCEPT ![n] = Append(@, [art |-> a, path |-> <<n>> \o path])]
                ELSE spool

(* A user's own post. *)
Write(a) ==
    /\ Accepts(Origin[a], Origin[a], a)
    /\ Post(Origin[a], Origin[a], a, <<>>)
    /\ UNCHANGED <<cursor, lost, files, faults>>

(* A cancel removes the file, or os.WriteFile did not write it. *)
Withdraw(n, a) ==
    /\ a \in Has(n) /\ <<n, a>> \notin gone \union torn /\ Fault
    /\ gone' = gone \union {<<n, a>>}
    /\ UNCHANGED <<spool, groups, cursor, lost, torn>>

(* Only a part of the newest was written, and nobody has read it yet. *)
Tear(n, a) ==
    /\ spool[n] # <<>> /\ a = Last(spool[n]).art
    /\ \A e \in Peered : e[1] = n => cursor[e] < Len(spool[n])
    /\ <<n, a>> \notin gone \union torn /\ Fault
    /\ torn' = torn \union {<<n, a>>}
    /\ UNCHANGED <<spool, groups, cursor, lost, gone>>
-----------------------------------------------------------------------------
(* SendMessages, at node n for its peer p. *)

Item(n, p) == spool[n][cursor[<<n, p>>] + 1]
HasNext(n, p) == <<n, p>> \in Peered /\ cursor[<<n, p>>] < Len(spool[n])

(* Variant: the cursor is set to the newest article. *)
AdvanceToNewest(n, p) == cursor' = [cursor EXCEPT ![<<n, p>>] = Len(spool[n])]

(* Variant: the number after the article's is written. *)
AdvancePast(n, p) == cursor' = [cursor EXCEPT ![<<n, p>>] = @ + 2]

Advance(n, p) == cursor' = [cursor EXCEPT ![<<n, p>>] = @ + 1]

(* getNextArticle has the row, but not the file. *)
Unread(n, p) == <<n, Item(n, p).art>> \in gone \union torn

Passed(n, p) == Contains(Item(n, p).path, p)

(* GetPerms of every group, unless p is on the path: one that is nil is
   read like the others. *)
NilPerms(n, p) ==
    /\ ~Passed(n, p)
    /\ \E g \in Groups[Item(n, p).art] \intersect groups[n] : p \in NoRow[g]

(* The feed gets on: else it returns an error each time, or panics. *)
Ready(n, p) == HasNext(n, p) /\ ~Unread(n, p) /\ ~NilPerms(n, p)

Wanted(n, p) ==
    /\ ~Passed(n, p)
    /\ \E g \in Groups[Item(n, p).art] :
        p = Owner[g] \/ (g \in groups[n] /\ p \in MayRead[g])

Skip(n, p) ==
    /\ Ready(n, p) /\ ~Wanted(n, p)
    /\ Advance(n, p)
    /\ UNCHANGED <<spool, groups, lost, files, faults>>

(* Whatever the peer answers. *)
Offer(n, p) ==
    /\ Ready(n, p) /\ Wanted(n, p)
    /\ Post(p, n, Item(n, p).art, Item(n, p).path)
    /\ Advance(n, p)
    /\ UNCHANGED <<lost, files, faults>>

(* The connection is dead, or the peer can not store the article: Post
   fails, and that is an answer too. *)
Lose(n, p) ==
    /\ Ready(n, p) /\ Wanted(n, p) /\ Fault
    /\ lost' = lost \union {<<n, p, Item(n, p).art>>}
    /\ Advance(n, p)
    /\ UNCHANGED <<spool, groups, files>>

(* After the answer the process of n dies, or GroupConfigSet fails. *)
OfferUncounted(n, p) ==
    /\ Ready(n, p) /\ Wanted(n, p) /\ Fault
    /\ Post(p, n, Item(n, p).art, Item(n, p).path)
    /\ UNCHANGED <<cursor, lost, files>>
-----------------------------------------------------------------------------
SendMessages(n, p) == Skip(n, p) \/ Offer(n, p) \/ Lose(n, p)

Next ==
    \/ \E a \in Article : Write(a)
    \/ \E n \in Node, a \in Article : Withdraw(n, a) \/ Tear(n, a)
    \/ \E n, p \in Node : SendMessages(n, p) \/ OfferUncounted(n, p)

Spec == Init /\ [][Next]_vars

(* Some feed of n panics whenever it is its turn: getArticleBySignature on
   a part of a file, or SendMessages on permissions that are nil. *)
Dying(n) ==
    \E p \in Node :
        /\ HasNext(n, p)
        /\ \/ <<n, Item(n, p).art>> \in torn
           \/ <<n, Item(n, p).art>> \notin gone /\ NilPerms(n, p)

(* Every Peer.Worker goes round by its timer, where the process lives. *)
Fairness == \A e \in Peered : WF_vars(SendMessages(e[1], e[2]) /\ ~Dying(e[1]))

FairSpec == Spec /\ Fairness
-----------------------------------------------------------------------------
(***************************************************************************)
(* Properties.                                                             *)
(***************************************************************************)

TypeOK ==
    /\ spool \in [Node -> Seq([art : Article, path : Seq(Node)])]
    /\ groups \in [Node -> SUBSET Group]
    /\ cursor \in [Peered -> Nat] /\ \A e \in Peered : cursor[e] <= Len(spool[e[1]])
    /\ lost \subseteq Node \X Node \X Article
    /\ gone \subseteq Node \X Article /\ torn \subseteq Node \X Article
    /\ faults \in 0 .. MaxFaults

(* The path of an article a node has accepted is the way it came: from peer
   to peer, no node twice, from its origin, every node on it has the
   article, and every hop was allowed: the one could read one of its groups
   and the other post to one. *)
PathIsWay ==
    \A n \in Node : \A i \in DOMAIN spool[n] :
        LET path == spool[n][i].path
            a == spool[n][i].art
        IN  /\ Head(path) = n /\ Last(path) = Origin[a] /\ IsInjective(path)
            /\ \A j \in 1 .. Len(path) - 1 :
                /\ <<path[j + 1], path[j]>> \in Peered
                /\ a \in Has(path[j + 1])
                /\ \E g \in Groups[a] : path[j] \in MayRead[g]
                /\ \E g \in Groups[a] : path[j + 1] \in MayPost[g]

(* n has accepted a, and before it the newgroup message c of one of a's
   groups, which p may read and n may post to; and neither has been lost
   between them. *)
Position(n, a) == CHOOSE i \in DOMAIN spool[n] : spool[n][i].art = a
Owes(n, p, a, c) ==
    /\ Creates[c] \in Groups[a] /\ p \in MayRead[Creates[c]] /\ n \in MayPost[Creates[c]]
    /\ Position(n, c) <= Position(n, a)
Lost(n, p, a, c) == <<n, p, a>> \in lost \/ <<n, p, c>> \in lost

(* p has the group, and a; or one of the two has been lost. *)
Spread(n, p, a, c) ==
    \/ Lost(n, p, a, c)
    \/ Creates[c] \in groups[p] /\ (a = c \/ a \in Has(p))

Newgroups(n) == {c \in Has(n) : Creates[c] # NoGroup}

(* A feed passes nothing over that it owes its peer: whatever it has dealt
   with the peer has, however the article came, and whoever sent the
   newgroup message first. *)
FeedsSettle ==
    \A e \in Peered : \A c \in Newgroups(e[1]) : \A a \in Has(e[1]) :
        Owes(e[1], e[2], a, c) /\ Position(e[1], a) <= cursor[e] => Spread(e[1], e[2], a, c)

(* The feed of n for p does not get to a: it stands at an article before it,
   or at a itself, whose file is gone, or some feed keeps killing n. *)
Held(n, p, a) ==
    \/ \E i \in DOMAIN spool[n] :
          /\ cursor[<<n, p>>] < i /\ i <= Position(n, a)
          /\ <<n, spool[n][i].art>> \in gone
    \/ Dying(n)

(* In the end everything that is owed has spread, the articles flooding along
   every path at once and every chance used up by one offer; but from a feed
   that is held up, and will be for ever. *)
Settled ==
    \A e \in Peered : \A c \in Newgroups(e[1]) : \A a \in Has(e[1]) :
        Owes(e[1], e[2], a, c) => Spread(e[1], e[2], a, c) \/ Held(e[1], e[2], a)

Spreads == []<>Settled

(* Every node keeps what the store promises, as Store.tla does write by write:
   its articles are numbered once, by their place, each above those before. *)
Numbers(n) == [a \in Article |-> IF a \in Has(n) THEN Position(n, a) ELSE 0]
NodeSpool(n) == INSTANCE Spool WITH
    Msg <- Article, MaxId <- Cardinality(Article), num <- Numbers(n),
    readable <- {a \in Has(n) : <<n, a>> \notin gone \union torn}
NodesAreSpools ==
    /\ \A n \in Node : NodeSpool(n)!SpoolInit
    /\ [][\A n \in Node : [NodeSpool(n)!SpoolNext]_(NodeSpool(n)!spoolVars)]_vars
=============================================================================
