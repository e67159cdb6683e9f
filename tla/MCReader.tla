------------------------------ MODULE MCReader ------------------------------
(* A small instance of Reader: a group of the user's own is made
   beside one the user may read and one closed to the user. *)
EXTENDS Reader

CONSTANTS own, friends, closedOne

MCPerm == [g \in Group |-> IF g = own THEN "own"
                        ELSE IF g = friends THEN "read" ELSE "deny"]
=============================================================================
