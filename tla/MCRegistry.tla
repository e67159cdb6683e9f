----------------------------- MODULE MCRegistry -----------------------------
(* A small instance of Registry: a group of the node's own, with a card for
   one friend, and a friend's group, with a card for everyone. *)
EXTENDS Registry

CONSTANTS k1, k2, f, own, theirs

MCOwnerOf == [g \in Group |-> IF g = own THEN k1 ELSE f]
MCCard == [g \in Group |->
    IF g = own THEN <<[who |-> Everyone, perms |-> {}], [who |-> f, perms |-> {"read", "post"}]>>
    ELSE <<[who |-> Everyone, perms |-> {"read"}]>>]
=============================================================================
