------------------------------- MODULE MCFeed -------------------------------
(* A small instance of Feed: two workers of one peer and any two of four
   articles, of which one is in a group without a permission row, and one
   has been through the peer. *)
EXTENDS Feed

CONSTANTS v, w, p, a, b, c, d

MCPeerOf == [x \in Worker |-> p]
MCAccess == [x \in Peer |-> [m \in Msg |-> IF m = c THEN "nil" ELSE "read"]]
MCOnPath == [x \in Peer |-> {d}]
=============================================================================
