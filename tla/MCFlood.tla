------------------------------ MODULE MCFlood ------------------------------
(* A small instance of Flood: three nodes that are peers of each other, a
   group that one of them may only read, a group closed to another, and an
   article in both. *)
EXTENDS Flood

CONSTANTS x, y, z, open, inner, newOpen, newInner, cross

MCPeered ==
    LET links == {<<x, y>>, <<y, z>>, <<z, x>>}
    IN  links \union {<<e[2], e[1]>> : e \in links}

MCOwner == [g \in Group |-> IF g = open THEN x ELSE y]
MCMayRead == [g \in Group |-> IF g = open THEN Node ELSE {y, z}]
MCMayPost == [g \in Group |-> IF g = open THEN {x, y} ELSE Node]
MCNoRow == [g \in Group |-> IF g = open THEN {} ELSE {x}]
MCOrigin == [a \in Article |-> CASE a = newOpen -> x [] a = newInner -> y
                                  [] a = cross -> y]
MCGroups == [a \in Article |-> CASE a = newOpen -> {open} [] a = newInner -> {inner}
                                  [] a = cross -> {open, inner}]
MCCreates == [a \in Article |-> CASE a = newOpen -> open [] a = newInner -> inner
                                  [] OTHER -> NoGroup]
=============================================================================
