----------------------------- MODULE MCPeering -----------------------------
(* Small instances of Peering: the node itself and one or two peers. *)
EXTENDS Peering

CONSTANTS s1, s2, me, p, q

NewPeers == {[kind |-> "newpeer", peer |-> x] : x \in Peer}
Article == [kind |-> "article", peer |-> None]
Unpeer == [kind |-> "unpeer", peer |-> p]

Sendmes == [kind |-> "sendme", peer |-> p]

MCGrow == NewPeers \union {Article, Sendmes}
MCAll == NewPeers \union {Article, Unpeer, Sendmes}
MCCircle == {[kind |-> "newpeer", peer |-> x] : x \in {p, q}} \union {Unpeer}
=============================================================================
