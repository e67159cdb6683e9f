------------------------------ MODULE MCStore ------------------------------
(* Small instances of Store: one article, a cancel of it with the same From
   header and one with another, on two sessions with different permissions. *)
EXTENDS Store

CONSTANTS
    s1, s2,               \* sessions
    article, cancel, foreign,
    g, h, k, u,           \* groups; the node carries g, h and k
    alice, bob            \* what From headers say

MCFrom == [m \in Msg |-> IF m = foreign THEN bob ELSE alice]
MCCancels == [m \in Msg |-> IF m = article THEN None ELSE article]

\* The first session may post to g and h, the second to h only.
MCMayPost == [s \in Session |-> IF s = s1 THEN {g, h} ELSE {h}]

\* The cancel leaves h alone and names k, which the article is not in, and u,
\* which is not carried; the foreign cancel is in no group that is carried.
PartialCancel == [m \in Msg |->
    IF m = article THEN <<g, h, u>> ELSE IF m = cancel THEN <<g, k, u>> ELSE <<g>>]

\* Everything is in the same two groups.
FullCancel == [m \in Msg |-> <<g, h>>]
=============================================================================
